---- MODULE Spec2Model ----
(***************************************************************************)
(* Chrome-Mnemonic: the AI operation scheduler.                            *)
(*                                                                         *)
(*   AIRequestQueue   src/services/request-queue.js                        *)
(*   AIService        src/services/ai-service.js (withAISession, the       *)
(*                    aiSessionManager, cleanup)                           *)
(*   RateLimiter      src/unnamed/part_004                                 *)
(*   EnhancedErrorHandler  src/services/enhanced-error-handler.js          *)
(*                                                                         *)
(* JavaScript runs one macrotask at a time; the promise continuations a    *)
(* macrotask makes runnable (microtasks) run before the next macrotask.    *)
(* An action below is one macrotask with its microtasks: a call from the   *)
(* outside (add, pause, ...), a timer firing, or an outside operation      *)
(* (provider create / destroy, the caller's callback) settling.            *)
(***************************************************************************)
EXTENDS Integers, Sequences, FiniteSets, TLC

\* ------------------------------------------------------------------ bounds
\* number of add() calls with a caller's own requestFn in a behaviour
MaxReq == 2
MaxDrainReq == 3
\* number of add() calls in a behaviour of BackoffSpec
MaxBackoffReq == 2
\* number of withAISession() calls in a behaviour
MaxSessReq == 2
\* number of AIService.cleanup() calls in a behaviour
MaxCleanups == 1
\* number of RateLimiter.queueRequest() calls in a behaviour
MaxRLReq == 3
\* number of queueRequest() calls of the burst of ScenarioC
BurstSize == 22
\* number of queueRequest() calls of the burst of WindowSpec
WindowBurst == 10
\* Date.now() when the page was loaded, in ms from the model's origin
StartTime == 100000
\* the largest attempt number backoffDelayMs is called with
MaxAttempt == 6
\* number of measureOperation() calls in a behaviour
MaxMeasured == 2
\* number of clearMetrics() calls in a behaviour
MaxClears == 1
\* number of milliseconds that pass in a behaviour of the monitor
MaxTicks == 1
\* number of recordRequest() calls in a behaviour of the monitor
MaxRecordRequests == 3

\* ------------------------------------------------------------- constants
priorityLevels == [critical |-> 1, high |-> 2, normal |-> 3, low |-> 4]

\* the priority options add() is called with
PriorityNames == {"critical", "normal"}

\* the values of the retries option add() and withAISession() are called with
RetryOptions == {1, 2}

\* the values of the retries option in BackoffSpec
BackoffRetryOptions == {3, 4}

\* AIRequestQueue.retryDelay, in ms
retryDelay == 2000

\* PerformanceMonitor.maxHistorySize
maxHistorySize == 1000

\* AIRequestQueue.maxHistorySize
queueMaxHistorySize == 500

\* the api types withAISession is called with
ApiTypes == {"Rewriter"}

\* RateLimiter.config
config ==
  [LanguageModel |-> [maxConcurrent |-> 2, minInterval |-> 1000, maxPerMinute |-> 30],
   Summarizer    |-> [maxConcurrent |-> 2, minInterval |-> 1500, maxPerMinute |-> 20],
   Writer        |-> [maxConcurrent |-> 2, minInterval |-> 1000, maxPerMinute |-> 25],
   Rewriter      |-> [maxConcurrent |-> 1, minInterval |-> 2000, maxPerMinute |-> 15],
   Proofreader   |-> [maxConcurrent |-> 1, minInterval |-> 2000, maxPerMinute |-> 10],
   Translator    |-> [maxConcurrent |-> 2, minInterval |-> 1000, maxPerMinute |-> 20]]

ConfiguredTypes == DOMAIN config

\* the api types queueRequest is called with
LimiterTypes == {"Rewriter", "Summarizer"}

\* the trailing window of canMakeRequest / getWaitTime, in ms
WindowMs == 60000
\* the delay of the processQueue timer executeRequest sets when it ends, in ms
ProcessDelayMs == 100

\* the priority options withAISession is called with
SessionPriorities == {"normal"}

\* the errors a requestFn, a provider create or a callback fails with, by the
\* type classify gives them: one that shouldRetry accepts and one it refuses
WorkErrors == {"NETWORK_ERROR", "VALIDATION"}

Types == {"RATE_LIMIT", "NETWORK_ERROR", "TIMEOUT", "VALIDATION", "AI_UNAVAILABLE", "UNKNOWN"}

\* the api types createSession has a provider for (the cases of its switch)
ProviderTypes ==
  {"LanguageModel", "Summarizer", "Writer", "Rewriter", "Proofreader", "Translator"}

\* the message of the error createSession throws for any other api type
UnknownTypeMessage == "Unknown API type"

\* the message of the error the timeout timer of executeRequest rejects with
TimeoutMessage == "Request timeout"

\* error messages, and for each the regular expressions of classify that
\* match it (by the first alternative of each)
Messages ==
  {"Request timeout", "rate limit exceeded", "network timeout", "fetch failed",
   "invalid input", "AI model is unavailable", "timed out after rate limit",
   "out of memory",
   "429 Too Many Requests: rate limit", "NetworkError: Failed to fetch",
   "Operation timed out", "Invalid input", "AI unavailable on this device",
   "Missing prompt: AI is disabled", "Failed: service unavailable",
   "AI UNAVAILABLE: INVALID NETWORK TIMEOUT 429", "TimeoutError", "Error", "x"}

MatchedBy(msg) ==
  CASE msg = "Request timeout" -> {"timeout"}
    [] msg = "rate limit exceeded" -> {"rate limit"}
    [] msg = "network timeout" -> {"network", "timeout"}
    [] msg = "fetch failed" -> {"network"}
    [] msg = "invalid input" -> {"invalid"}
    [] msg = "AI model is unavailable" -> {"ai unavailable"}
    [] msg = "timed out after rate limit" -> {"rate limit", "timeout"}
    [] msg = "429 Too Many Requests: rate limit" -> {"rate limit"}
    [] msg = "NetworkError: Failed to fetch" -> {"network"}
    [] msg = "Operation timed out" -> {"timeout"}
    [] msg = "Invalid input" -> {"invalid"}
    [] msg = "AI unavailable on this device" -> {"ai unavailable"}
    [] msg = "Missing prompt: AI is disabled" -> {"invalid", "ai unavailable"}
    [] msg = "Failed: service unavailable" -> {"ai unavailable"}
    [] msg = "AI UNAVAILABLE: INVALID NETWORK TIMEOUT 429" ->
         {"rate limit", "network", "timeout", "invalid", "ai unavailable"}
    [] msg = "TimeoutError" -> {"timeout"}
    [] OTHER -> {}

\* classify that does not know the timeout messages
classifyNoTimeout(msg) ==
  IF "rate limit" \in MatchedBy(msg) THEN "RATE_LIMIT"
  ELSE IF "network" \in MatchedBy(msg) THEN "NETWORK_ERROR"
  ELSE IF "invalid" \in MatchedBy(msg) THEN "VALIDATION"
  ELSE IF "ai unavailable" \in MatchedBy(msg) THEN "AI_UNAVAILABLE"
  ELSE "UNKNOWN"

\* classify that tests for a timeout before it tests for a network error
classifyTimeoutFirst(msg) ==
  IF "rate limit" \in MatchedBy(msg) THEN "RATE_LIMIT"
  ELSE IF "timeout" \in MatchedBy(msg) THEN "TIMEOUT"
  ELSE IF "network" \in MatchedBy(msg) THEN "NETWORK_ERROR"
  ELSE IF "invalid" \in MatchedBy(msg) THEN "VALIDATION"
  ELSE IF "ai unavailable" \in MatchedBy(msg) THEN "AI_UNAVAILABLE"
  ELSE "UNKNOWN"

\* EnhancedErrorHandler.classify, on the message of a plain Error: the type
\* of the first regular expression that matches, in the order of the code
classify(msg) ==
  IF "rate limit" \in MatchedBy(msg) THEN "RATE_LIMIT"
  ELSE IF "network" \in MatchedBy(msg) THEN "NETWORK_ERROR"
  ELSE IF "timeout" \in MatchedBy(msg) THEN "TIMEOUT"
  ELSE IF "invalid" \in MatchedBy(msg) THEN "VALIDATION"
  ELSE IF "ai unavailable" \in MatchedBy(msg) THEN "AI_UNAVAILABLE"
  ELSE "UNKNOWN"

\* the cap of EnhancedErrorHandler.backoffDelayMs for an error of the type, in
\* ms; 0 for a type it gives no delay
backoffCapMs(type) ==
  IF type = "RATE_LIMIT" THEN 10000
  ELSE IF type = "NETWORK_ERROR" \/ type = "TIMEOUT" THEN 5000
  ELSE 0

\* shouldRetry that takes an error without a type for a transient one
shouldRetryUntyped(type) ==
  type \in {"NETWORK_ERROR", "TIMEOUT", "RATE_LIMIT", "undefined"}

\* EnhancedErrorHandler.shouldRetry, on the type of a classified error
\* ("undefined": the error has no type, and `|| UNKNOWN` gives it one)
shouldRetry(type) == type = "NETWORK_ERROR" \/ type = "TIMEOUT" \/ type = "RATE_LIMIT"

\* the values classify is called with: null, undefined, a string, an Error
\* (name, message) or an EnhancedError (message, type)
Value(tag, name, text, message, type) ==
  [tag |-> tag, name |-> name, text |-> text, message |-> message, type |-> type]

null == Value("null", "", "", "", "undefined")

undefined == Value("undefined", "", "", "", "undefined")

StringValue(text) == Value("string", "", text, "", "undefined")

Error(name, message) == Value("Error", name, "", message, "undefined")

\* new EnhancedError(message, type): isEnhanced is true
EnhancedError(message, type) == Value("EnhancedError", "EnhancedError", "", message, type)

\* the TypeError a property read on null or undefined raises
Raised == Value("raised", "TypeError", "", "Cannot read properties", "undefined")

\* !error: null, undefined and the empty string are falsy, objects are not
Falsy(error) ==
  error.tag \in {"null", "undefined"} \/ (error.tag = "string" /\ error.text = "")

\* String(error), where classify uses it: on a string, the string; on an
\* Error whose message is empty, Error.prototype.toString gives its name
StringOf(error) == IF error.tag = "string" THEN error.text ELSE error.name

\* classify without the guard of its first line
ClassifyNoGuard(error) ==
  IF error.tag \in {"null", "undefined"} THEN Raised
  ELSE IF error.tag = "EnhancedError" THEN error
  ELSE LET message == IF error.message # "" THEN error.message ELSE StringOf(error)
       IN EnhancedError(message, classify(message))

\* EnhancedErrorHandler.classify, the whole function
Classify(error) ==
  IF Falsy(error) THEN EnhancedError("Unknown error", "UNKNOWN")
  ELSE IF error.tag = "EnhancedError" THEN error
  ELSE LET message == IF error.message # "" THEN error.message ELSE StringOf(error)
       IN EnhancedError(message, classify(message))

\* backoffDelayMs whose delay grows with the attempt number, not its power
backoffDelayLinear(type, attempt, baseMs, jitter) ==
  IF type = "RATE_LIMIT" \/ type = "NETWORK_ERROR" \/ type = "TIMEOUT"
  THEN (IF baseMs * attempt < backoffCapMs(type)
        THEN baseMs * attempt ELSE backoffCapMs(type)) + jitter
  ELSE 0

\* EnhancedErrorHandler.backoffDelayMs, on the type of the error; jitter is
\* the value of Math.floor(Math.random() * 150)
backoffDelayMs(type, attempt, baseMs, jitter) ==
  IF type = "RATE_LIMIT" \/ type = "NETWORK_ERROR" \/ type = "TIMEOUT"
  THEN (IF baseMs * 2^attempt < backoffCapMs(type)
        THEN baseMs * 2^attempt ELSE backoffCapMs(type)) + jitter
  ELSE 0

\* Math.floor(Math.random() * 150) is in 0 .. 149
JitterRange == 150

\* the inputs of the handler's functions
ErrorValues ==
  {null, undefined} \cup {StringValue(m) : m \in Messages \cup {""}}
    \cup {Error("Error", m) : m \in Messages \cup {""}}
    \cup {Error("TimeoutError", "")}
    \cup {EnhancedError("x", t) : t \in Types}

RetryInputs == {EnhancedError("x", t) : t \in Types \cup {"undefined"}}

AttemptOptions == 1..MaxAttempt

BaseOptions == {100, 500}

JitterDraws == {0, JitterRange - 1}

\* one session handle per attempt: <<request id, attempt number>>
Handles == (1..MaxSessReq) \X RetryOptions

VARIABLES
  requests,        \* AIRequestQueue: the request objects, by id (creation order)
  queue,           \* AIRequestQueue.queue: ids
  processing,      \* AIRequestQueue.processing
  activeRequests,  \* AIRequestQueue.activeRequests: ids
  awaiting,        \* process() invocations at `await this.executeRequest(r)`: the r's
  sleeping,        \* process() invocations at `await this.sleep(this.delay)`: how many
  retryTimers,     \* pending setTimeout of the retry branch: per id, how many
                   \* sleeps of process() end before it fires
  work,            \* the requestFn withAISession hands to add, per attempt
  activeSessions,  \* aiSessionManager.activeSessions: handles
  destroyCalls,    \* per handle: how often session.destroy() was invoked
  sweep,           \* destroyAllSessions: handles whose destroy it still awaits
  sweeping,        \* a destroyAllSessions is awaiting Promise.allSettled
  cleanups,        \* cleanup() calls so far
  sweepWarned,     \* handles whose destroySession, called by the sweep, warned
  sweepReturn,     \* how the last destroyAllSessions ended ("none": not yet)
  paused,          \* pause() was called and resume() has not been called since
  now,             \* Date.now()
  limiterQueues,   \* RateLimiter.queues: per api type, ids of limiterReqs
  limiterActive,   \* RateLimiter.activeRequests: per api type, a count
  lastRequestTime, \* RateLimiter.lastRequestTime: per api type (0: no entry)
  limiterHistory,  \* RateLimiter.requestHistory: per api type, timestamps
  limiterReqs,     \* the requests handed to queueRequest, by id
  processTimers,   \* pending setTimeout(processQueue, 100): per api type, deadlines
  operationHistory, \* PerformanceMonitor.operationHistory: the array of records
  metrics,         \* PerformanceMonitor.metrics: per operation name, its stats
  activeOperations, \* PerformanceMonitor.activeOperations: the keys of the Map
  memoryBaseline,  \* PerformanceMonitor.memoryBaseline, in 1/1000 MB
  calls,           \* the measureOperation calls so far: how fn settled, how the
                   \* call ended, and the number of clearMetrics() before that
  recorded,        \* how many records recordOperation has pushed so far
  clears,          \* clearMetrics() calls so far
  returned,        \* the last call of the monitor, when it was an introspection
                   \* call, and the value it returned
  handlerLog,      \* EnhancedErrorHandler: its last calls with their results
  requestHistory,  \* AIRequestQueue.requestHistory: the array of records; the
                   \* scheduler never reads it, and the actions of the
                   \* scheduler above do not carry it
  storage          \* chrome.storage.local: per item name, the stored value

schedVars == <<requests, queue, processing, activeRequests, awaiting, sleeping,
               retryTimers, work, activeSessions, destroyCalls, sweep, sweeping, cleanups,
               sweepWarned, sweepReturn, paused>>

limiterVars == <<now, limiterQueues, limiterActive, lastRequestTime, limiterHistory,
                 limiterReqs, processTimers>>

monitorVars == <<operationHistory, metrics, activeOperations, memoryBaseline, calls,
                 recorded, clears, returned>>

toolVars == <<monitorVars, handlerLog, requestHistory>>

vars == <<schedVars, limiterVars, toolVars, storage>>

queueVars == <<requests, queue, processing, activeRequests, awaiting, sleeping, retryTimers>>
sessionVars == <<activeSessions, destroyCalls>>
sweepVars == <<sweep, sweeping, cleanups, sweepWarned, sweepReturn>>

Ids == 1..Len(requests)

NoWork == [phase |-> "none", res |-> "none", session |-> FALSE]

SchedInit ==
  /\ requests = <<>>
  /\ queue = <<>>
  /\ processing = FALSE
  /\ activeRequests = {}
  /\ awaiting = {}
  /\ sleeping = 0
  /\ retryTimers = <<>>
  /\ work = [h \in Handles |-> NoWork]
  /\ activeSessions = {}
  /\ destroyCalls = [h \in Handles |-> 0]
  /\ sweep = {}
  /\ sweeping = FALSE
  /\ cleanups = 0
  /\ sweepWarned = {}
  /\ sweepReturn = "none"
  /\ paused = FALSE
  /\ now = StartTime
  /\ limiterQueues = [t \in ConfiguredTypes |-> <<>>]
  /\ limiterActive = [t \in ConfiguredTypes |-> 0]
  /\ lastRequestTime = [t \in ConfiguredTypes |-> 0]
  /\ limiterHistory = [t \in ConfiguredTypes |-> <<>>]
  /\ limiterReqs = <<>>
  /\ processTimers = [t \in ConfiguredTypes |-> <<>>]

\* new PerformanceMonitor(), on a platform without performance.memory
MonitorFresh ==
  /\ operationHistory = <<>>
  /\ metrics = <<>>
  /\ activeOperations = {}
  /\ memoryBaseline = 0
  /\ calls = <<>>
  /\ recorded = 0
  /\ clears = 0
  /\ returned = [call |-> "none", value |-> <<>>]

Init ==
  SchedInit /\ MonitorFresh /\ handlerLog = <<>> /\ requestHistory = <<>> /\ storage = <<>>

\* ------------------------------------------------------------ RateLimiter
Max(a, b) == IF a >= b THEN a ELSE b
Min(a, b) == IF a <= b THEN a ELSE b

\* requestHistory.filter(time => time > oneMinuteAgo)
RecentRequests(hist, at) == SelectSeq(hist, LAMBDA time : time > at - WindowMs)

\* canMakeRequest that lets one request more than maxConcurrent through
canMakeRequestLax(t, at) ==
  IF t \notin ConfiguredTypes THEN TRUE
  ELSE IF limiterActive[t] > config[t].maxConcurrent THEN FALSE
  ELSE IF at - lastRequestTime[t] < config[t].minInterval THEN FALSE
  ELSE IF Len(RecentRequests(limiterHistory[t], at)) >= config[t].maxPerMinute THEN FALSE
  ELSE TRUE

\* canMakeRequest(apiType) at time `at`: true without a config; else the
\* concurrent limit, the minimum interval and the per-minute limit
canMakeRequestAt(t, at) ==
  IF t \notin ConfiguredTypes THEN TRUE
  ELSE IF limiterActive[t] >= config[t].maxConcurrent THEN FALSE
  ELSE IF at - lastRequestTime[t] < config[t].minInterval THEN FALSE
  ELSE IF Len(RecentRequests(limiterHistory[t], at)) >= config[t].maxPerMinute THEN FALSE
  ELSE TRUE

canMakeRequest(t) == canMakeRequestAt(t, now)

\* getWaitTime that waits for the newest timestamp of the window to leave
WaitTimeNewest(cfg, at, last, hist) ==
  LET intervalWait == Max(0, cfg.minInterval - (at - last))
      recentRequests == RecentRequests(hist, at)
      rateLimitWait == IF Len(recentRequests) >= cfg.maxPerMinute
                       THEN (recentRequests[Len(recentRequests)] + WindowMs) - at ELSE 0
  IN Max(intervalWait, rateLimitWait)

\* getWaitTime(apiType) for a config cfg at time `at`, lastRequestTime `last`
\* and requestHistory `hist`
WaitTime(cfg, at, last, hist) ==
  LET intervalWait == Max(0, cfg.minInterval - (at - last))
      recentRequests == RecentRequests(hist, at)
      rateLimitWait == IF Len(recentRequests) >= cfg.maxPerMinute
                       THEN (recentRequests[1] + WindowMs) - at ELSE 0
  IN Max(intervalWait, rateLimitWait)

getWaitTime(t) ==
  IF t \notin ConfiguredTypes THEN 0
  ELSE WaitTime(config[t], now, lastRequestTime[t], limiterHistory[t])

\* ------------------------------------------------------ AIRequestQueue.add
\* Array.prototype.sort is stable: insert r behind the last entry whose
\* priority is not larger.  q is sorted whenever add sorts it or not; the
\* result is what push + stable sort gives for any q.
\* an insertion that puts r in front of the entries of its own priority
RECURSIVE InsertBeforeEqual(_, _, _)
InsertBeforeEqual(q, r, rq) ==
  IF q = <<>> THEN <<r>>
  ELSE IF rq[Head(q)].priority < rq[r].priority
       THEN <<Head(q)>> \o InsertBeforeEqual(Tail(q), r, rq)
       ELSE <<r>> \o q

RECURSIVE InsertSorted(_, _, _)
InsertSorted(q, r, rq) ==
  IF q = <<>> THEN <<r>>
  ELSE IF rq[Head(q)].priority <= rq[r].priority
       THEN <<Head(q)>> \o InsertSorted(Tail(q), r, rq)
       ELSE <<r>> \o q

\* stable insertion sort of q by priority: this.queue.sort((a, b) => a.priority - b.priority)
RECURSIVE SortByPriority(_, _)
SortByPriority(q, rq) ==
  IF q = <<>> THEN <<>>
  ELSE InsertSorted(SortByPriority(SubSeq(q, 1, Len(q) - 1), rq), q[Len(q)], rq)

\* a promise settles once: later resolve / reject calls change nothing
Settle(promise, outcome) == IF promise = "pending" THEN outcome ELSE promise

\* setTimeout(..., this.retryDelay * request.attempts) for r, set while n
\* sleeps of this.delay are pending or start: retryDelay (2000) exceeds delay
\* (1000), so each of them ends before the timer fires
SetTimer(timers, r, n) ==
  [x \in DOMAIN timers \cup {r} |-> IF x = r THEN n ELSE timers[x]]

\* the timers left once the timer of r has fired
DropTimer(timers, r) == [x \in DOMAIN timers \ {r} |-> timers[x]]

\* one sleep of this.delay ended: one sleep less is ahead of each timer
SleepEnded(timers) == [x \in DOMAIN timers |-> Max(0, timers[x] - 1)]

\* the attempt the queue is running for r
CurrentHandle(rq, r) == <<r, rq[r].attempts>>

\* process() entered with processing false and q not empty, up to its first
\* await: shift the head, executeRequest's synchronous part, and the start of
\* requestFn.  The requestFn of withAISession runs up to `await
\* ctor.create(...)`, or to the sleep of line 178 when canMakeRequest is
\* false.  A caller's own requestFn is opaque: it runs until it settles.
\* sl and tm are sleeping and retryTimers as the caller leaves them.
\* For an api type createSession does not know nothing is awaited outside:
\* createSession throws, requestFn rejects with the classified error, the
\* catch block of executeRequest runs and process() goes on, all at once.
StartHead(q, rq, sl, tm) ==
  LET r == Head(q)
      k == rq[r].attempts + 1
      retry == k < rq[r].maxRetries
      more == Tail(q) # <<>>
  IN IF rq[r].fn = "session" /\ rq[r].apiType \notin ProviderTypes
     THEN /\ queue' = Tail(q)
          /\ requests' =
               IF retry
               THEN [rq EXCEPT ![r].status = "failed", ![r].attempts = k,
                               ![r].lastError = classify(UnknownTypeMessage),
                               ![r].delays = Append(@, retryDelay * k)]
               ELSE [rq EXCEPT ![r].status = "failed", ![r].attempts = k,
                               ![r].lastError = classify(UnknownTypeMessage),
                               ![r].promise = Settle(@, "rejected")]
          /\ retryTimers' = IF retry THEN SetTimer(tm, r, IF more THEN sl + 1 ELSE sl)
                            ELSE tm
          /\ activeRequests' = IF retry THEN activeRequests \cup {r}
                               ELSE activeRequests \ {r}
          /\ work' = [work EXCEPT ![<<r, k>>].phase = "settled"]
          /\ sleeping' = IF more THEN sl + 1 ELSE sl
          /\ processing' = more
          /\ UNCHANGED awaiting
     ELSE /\ processing' = TRUE
          /\ queue' = Tail(q)
          /\ requests' = [rq EXCEPT ![r].status = "processing", ![r].attempts = k]
          /\ activeRequests' = activeRequests \cup {r}
          /\ awaiting' = awaiting \cup {r}
          /\ work' = IF rq[r].fn = "session"
                     THEN [work EXCEPT ![<<r, k>>].phase =
                             IF canMakeRequest(rq[r].apiType) THEN "creating" ELSE "waiting"]
                     ELSE work
          /\ sleeping' = sl
          /\ retryTimers' = tm

\* process(): returns at once when processing or the queue is empty
Process(q, rq, sl, tm) ==
  IF processing \/ q = <<>>
  THEN /\ queue' = q
       /\ requests' = rq
       /\ sleeping' = sl
       /\ retryTimers' = tm
       /\ UNCHANGED <<processing, activeRequests, awaiting, work>>
  ELSE StartHead(q, rq, sl, tm)

\* add(requestFn, options): push, sort, then process() when not processing
Enqueue(p, n, t, fn) ==
  LET r == Len(requests) + 1
      rq == Append(requests, [priority |-> priorityLevels[p], maxRetries |-> n,
                              attempts |-> 0, status |-> "queued", apiType |-> t,
                              fn |-> fn, lastError |-> "none", promise |-> "pending",
                              delays |-> <<>>])
  IN Process(SortByPriority(Append(queue, r), rq), rq, sleeping, retryTimers)

\* add() called with a caller's own requestFn; apiType defaults to 'unknown'
Add(p, n) ==
  /\ Len(requests) < MaxReq
  /\ Enqueue(p, n, "unknown", "plain")
  /\ UNCHANGED <<sessionVars, sweepVars, paused, limiterVars, storage, toolVars>>

\* add() of the drain scenario: up to MaxDrainReq submissions
AddDrain(p, n) ==
  /\ Len(requests) < MaxDrainReq
  /\ Enqueue(p, n, "unknown", "plain")
  /\ UNCHANGED <<sessionVars, sweepVars, paused, limiterVars, storage, toolVars>>

\* withAISession(apiType, config, callback, options): add() with the
\* session-wrapping requestFn of lines 170-216
WithAISession(t, p, n) ==
  /\ Len(requests) < MaxSessReq
  /\ Enqueue(p, n, t, "session")
  /\ UNCHANGED <<sessionVars, sweepVars, paused, limiterVars, storage, toolVars>>

\* the retry test with <= for <
RetryAllowedOffByOne(r) == requests[r].attempts <= requests[r].maxRetries

\* the retry test of the catch block (line 136); the error is not looked at
RetryAllowed(r) == requests[r].attempts < requests[r].maxRetries

\* the delay of the timer of line 143 after an attempt of r failed
RetryDelayMs(r) == retryDelay * requests[r].attempts

\* executeRequest(r) after its await: the try's success lines (116-125) for
\* outcome "ok", the catch block (127-151) for an error of the given type;
\* then process() goes on: sleep when the queue is not empty, else leave the
\* while loop and set processing to false (lines 77-83).
ExecSettle(r, outcome) ==
  /\ requests' =
       IF outcome = "ok"
       THEN [requests EXCEPT ![r].status = "completed",
                             ![r].promise = Settle(@, "resolved")]
       ELSE IF RetryAllowed(r)
       THEN [requests EXCEPT ![r].status = "failed", ![r].lastError = outcome,
                             ![r].delays = Append(@, RetryDelayMs(r))]
       ELSE [requests EXCEPT ![r].status = "failed", ![r].lastError = outcome,
                             ![r].promise = Settle(@, "rejected")]
  /\ retryTimers' =
       IF outcome # "ok" /\ RetryAllowed(r)
       THEN SetTimer(retryTimers, r, IF queue # <<>> THEN sleeping + 1 ELSE sleeping)
       ELSE retryTimers
  /\ activeRequests' =
       IF outcome # "ok" /\ RetryAllowed(r)
       THEN activeRequests ELSE activeRequests \ {r}
  /\ awaiting' = awaiting \ {r}
  /\ IF queue # <<>>
     THEN sleeping' = sleeping + 1 /\ UNCHANGED processing
     ELSE processing' = FALSE /\ UNCHANGED sleeping
  /\ UNCHANGED queue

\* the queue still awaits the race of handle h's requestFn against its timer
Attached(h) == h[1] \in awaiting /\ requests[h[1]].attempts = h[2]

\* requestFn of handle h settles with outcome: the race settles with it when
\* the queue still awaits it; after a timeout nobody listens
WorkSettles(h, outcome) ==
  IF Attached(h) THEN ExecSettle(h[1], outcome) ELSE UNCHANGED queueVars

\* the timer of line 102 fires before requestFn settled: the race rejects
\* with Error('Request timeout'), recorded by the type classify gives it;
\* requestFn itself goes on running
Timeout(r) ==
  /\ r \in awaiting
  /\ ExecSettle(r, classify(TimeoutMessage))
  /\ UNCHANGED <<work, sessionVars, sweepVars, paused, limiterVars, storage, toolVars>>

\* the retry callback without its call of process()
RetryFireNoProcess(r) ==
  /\ r \in DOMAIN retryTimers
  /\ retryTimers[r] = 0
  /\ retryTimers' = DropTimer(retryTimers, r)
  /\ queue' = <<r>> \o queue
  /\ UNCHANGED <<requests, processing, activeRequests, awaiting, work, sleeping,
                 sessionVars, sweepVars, paused, limiterVars, storage, toolVars>>

\* the retry timer of lines 140-143 fires: unshift, then process()
RetryFire(r) ==
  /\ r \in DOMAIN retryTimers
  /\ retryTimers[r] = 0
  /\ Process(<<r>> \o queue, requests, sleeping, DropTimer(retryTimers, r))
  /\ UNCHANGED <<sessionVars, sweepVars, paused, limiterVars, storage, toolVars>>

\* a process() invocation wakes from sleep(this.delay): the while test, then
\* the next head or the end of the loop
SleepDone ==
  /\ sleeping > 0
  /\ IF queue # <<>>
     THEN StartHead(queue, requests, sleeping - 1, SleepEnded(retryTimers))
     ELSE /\ processing' = FALSE
          /\ sleeping' = sleeping - 1
          /\ retryTimers' = SleepEnded(retryTimers)
          /\ UNCHANGED <<queue, requests, activeRequests, awaiting, work>>
  /\ UNCHANGED <<sessionVars, sweepVars, paused, limiterVars, storage, toolVars>>

\* pause(): only clears the flag
Pause ==
  /\ processing' = FALSE
  /\ paused' = TRUE
  /\ UNCHANGED <<requests, queue, activeRequests, awaiting, sleeping, retryTimers,
                 work, sessionVars, sweepVars, limiterVars, storage, toolVars>>

\* resume(): process() when the flag is clear and the queue is not empty,
\* else nothing
Resume ==
  /\ IF ~processing /\ queue # <<>>
     THEN StartHead(queue, requests, sleeping, retryTimers)
     ELSE UNCHANGED <<queueVars, work>>
  /\ paused' = FALSE
  /\ UNCHANGED <<sessionVars, sweepVars, limiterVars, storage, toolVars>>

\* clearQueue(): reject every queued request, empty the queue
ClearQueue ==
  /\ queue # <<>>
  /\ requests' = [r \in Ids |->
       IF \E i \in 1..Len(queue) : queue[i] = r
       THEN [requests[r] EXCEPT !.promise = Settle(@, "cleared")]
       ELSE requests[r]]
  /\ queue' = <<>>
  /\ UNCHANGED <<processing, activeRequests, awaiting, sleeping, retryTimers,
                 work, sessionVars, sweepVars, paused, limiterVars, storage, toolVars>>

\* a caller's own requestFn settles while the queue awaits it
WorkDone(r, outcome) ==
  /\ r \in awaiting
  /\ requests[r].fn = "plain"
  /\ ExecSettle(r, outcome)
  /\ UNCHANGED <<work, sessionVars, sweepVars, paused, limiterVars, storage, toolVars>>

\* ------------------------------------------ withAISession: the requestFn
\* createSession that tracks the handle before it knows the outcome
CreateDoneTracksFirst(h, outcome) ==
  /\ work[h].phase = "creating"
  /\ activeSessions' = activeSessions \cup {h}
  /\ IF outcome = "ok"
     THEN /\ work' = [work EXCEPT ![h].phase = "callback", ![h].session = TRUE]
          /\ UNCHANGED queueVars
     ELSE /\ work' = [work EXCEPT ![h].phase = "settled"]
          /\ WorkSettles(h, outcome)
  /\ UNCHANGED <<destroyCalls, sweepVars, paused, limiterVars, storage, toolVars>>

\* ctor.create settles (tryCreate: the primary config, then the fallback).
\* ok: createSession adds the handle to the live set and callback(session)
\* starts.  Failure: classify, no session to destroy, requestFn rejects.
CreateDone(h, outcome) ==
  /\ work[h].phase = "creating"
  /\ IF outcome = "ok"
     THEN /\ work' = [work EXCEPT ![h].phase = "callback", ![h].session = TRUE]
          /\ activeSessions' = activeSessions \cup {h}
          /\ UNCHANGED queueVars
     ELSE /\ work' = [work EXCEPT ![h].phase = "settled"]
          /\ UNCHANGED activeSessions
          /\ WorkSettles(h, outcome)
  /\ UNCHANGED <<destroyCalls, sweepVars, paused, limiterVars, storage, toolVars>>

\* the sleep of line 178 ends: createSession is called
RateSleepDone(h) ==
  /\ work[h].phase = "waiting"
  /\ work' = [work EXCEPT ![h].phase = "creating"]
  /\ UNCHANGED <<queueVars, sessionVars, sweepVars, paused, limiterVars, storage, toolVars>>

\* callback(session) settles: the finally block calls destroySession, which
\* invokes session.destroy() and awaits it
CallbackDone(h, outcome) ==
  /\ work[h].phase = "callback"
  /\ work' = [work EXCEPT ![h].phase = "destroying", ![h].res = outcome]
  /\ destroyCalls' = [destroyCalls EXCEPT ![h] = @ + 1]
  /\ UNCHANGED <<queueVars, activeSessions, sweepVars, paused, limiterVars, storage, toolVars>>

\* session.destroy() of the finally block settles: on success destroySession
\* deletes the handle from the live set, on failure it only warns (line 105);
\* then requestFn settles with the callback's outcome
DestroyDone(h, ok) ==
  /\ work[h].phase = "destroying"
  /\ work' = [work EXCEPT ![h].phase = "settled", ![h].res = "none"]
  /\ activeSessions' = IF ok THEN activeSessions \ {h} ELSE activeSessions
  /\ WorkSettles(h, work[h].res)
  /\ UNCHANGED <<destroyCalls, sweepVars, paused, limiterVars, storage, toolVars>>

\* ------------------------------------------- AIService.cleanup (shutdown)
\* destroyAllSessions: destroySession is called on every live handle, each
\* invoking session.destroy(); with nothing to await, clear() runs at once
\* and the call returns
Cleanup ==
  /\ cleanups < MaxCleanups
  /\ ~sweeping
  /\ cleanups' = cleanups + 1
  /\ destroyCalls' = [h \in Handles |->
       IF h \in activeSessions THEN destroyCalls[h] + 1 ELSE destroyCalls[h]]
  /\ sweep' = activeSessions
  /\ sweeping' = (activeSessions # {})
  /\ sweepWarned' = {}
  /\ sweepReturn' = IF activeSessions = {} THEN "returned" ELSE "none"
  /\ UNCHANGED <<queueVars, work, activeSessions, paused, limiterVars, storage, toolVars>>

\* a sweep built on Promise.all over destroy calls that let the failure
\* through: the first failure ends the sweep, nothing is cleared
SweepDestroyDoneAborts(h, ok) ==
  /\ h \in sweep
  /\ sweep' = IF ok THEN sweep \ {h} ELSE {}
  /\ sweeping' = (ok /\ sweep # {h})
  /\ sweepWarned' = sweepWarned
  /\ sweepReturn' = IF ~ok THEN "raised" ELSE IF sweep = {h} THEN "returned" ELSE "none"
  /\ activeSessions' =
       IF ~ok THEN activeSessions
       ELSE IF sweep = {h} THEN {} ELSE activeSessions \ {h}
  /\ UNCHANGED <<queueVars, work, destroyCalls, cleanups, paused, limiterVars, storage, toolVars>>

\* one session.destroy() of the sweep settles: destroySession deletes the
\* handle, or catches the failure and warns (line 105), and is fulfilled
\* either way; when it was the last one, Promise.allSettled resolves,
\* activeSessions.clear() runs and destroyAllSessions returns
SweepDestroyDone(h, ok) ==
  /\ h \in sweep
  /\ sweep' = sweep \ {h}
  /\ sweeping' = (sweep # {h})
  /\ sweepWarned' = IF ok THEN sweepWarned ELSE sweepWarned \cup {h}
  /\ sweepReturn' = IF sweep = {h} THEN "returned" ELSE "none"
  /\ activeSessions' =
       IF sweep = {h} THEN {}
       ELSE IF ok THEN activeSessions \ {h} ELSE activeSessions
  /\ UNCHANGED <<queueVars, work, destroyCalls, cleanups, paused, limiterVars, storage, toolVars>>

\* ------------------------------------------- RateLimiter: the queue
\* how many times the body of processQueue's for loop runs: the bound
\* Math.min(availableSlots, queue.length) is read again after every shift
RECURSIVE LoopRuns(_, _, _)
LoopRuns(i, availableSlots, length) ==
  IF i < Min(availableSlots, length)
  THEN 1 + LoopRuns(i + 1, availableSlots, length - 1)
  ELSE 0

\* availableSlots computed without the active count
AvailableSlotsNoActive(t) == config[t].maxConcurrent

\* processQueue's availableSlots (lines 102-103)
AvailableSlots(t) == config[t].maxConcurrent - limiterActive[t]

\* j timestamps `at` pushed onto hist
RECURSIVE Pushed(_, _, _)
Pushed(hist, at, j) == IF j = 0 THEN hist ELSE Append(Pushed(hist, at, j - 1), at)

\* processQueue(apiType) on the queue q: returns at once without a config or
\* with an empty queue; else shifts requests and calls executeRequest on each,
\* which runs up to its first await: count, time and history are updated,
\* then it sleeps getWaitTime (lastRequestTime is now, so it waits at least
\* minInterval) or, with nothing to wait for, calls requestFunction.
ProcessQueue(t, q, rqs) ==
  IF t \notin ConfiguredTypes \/ q = <<>>
  THEN /\ limiterQueues' = [x \in DOMAIN limiterQueues \cup {t} |->
                              IF x = t THEN q ELSE limiterQueues[x]]
       /\ limiterReqs' = rqs
       /\ UNCHANGED <<limiterActive, lastRequestTime, limiterHistory>>
  ELSE LET k == LoopRuns(0, AvailableSlots(t), Len(q))
           wait(j) == WaitTime(config[t], now, now, Pushed(limiterHistory[t], now, j))
       IN /\ limiterQueues' = [limiterQueues EXCEPT ![t] = SubSeq(q, k + 1, Len(q))]
          /\ limiterActive' = [limiterActive EXCEPT ![t] = @ + k]
          /\ lastRequestTime' = [lastRequestTime EXCEPT ![t] = IF k > 0 THEN now ELSE @]
          /\ limiterHistory' = [limiterHistory EXCEPT ![t] = Pushed(@, now, k)]
          /\ limiterReqs' = [i \in 1..Len(rqs) |->
               IF \E j \in 1..k : q[j] = i
               THEN LET j == CHOOSE j \in 1..k : q[j] = i
                    IN IF wait(j) > 0
                       THEN [rqs[i] EXCEPT !.state = "sleeping", !.wake = now + wait(j)]
                       ELSE [rqs[i] EXCEPT !.state = "running"]
               ELSE rqs[i]]

\* getQueue(apiType): the queue of the type, a new empty one when it has none
getQueue(t) == IF t \in DOMAIN limiterQueues THEN limiterQueues[t] ELSE <<>>

\* queueRequest(apiType, requestFunction): push, then processQueue
Enqueued(t) ==
  LET i == Len(limiterReqs) + 1
  IN ProcessQueue(t, Append(getQueue(t), i),
                  Append(limiterReqs, [type |-> t, state |-> "queued", wake |-> 0]))

QueueRequest(t) ==
  /\ Len(limiterReqs) < MaxRLReq
  /\ Enqueued(t)
  /\ UNCHANGED <<now, processTimers, schedVars, storage, toolVars>>

\* executeRequest's sleep(waitTime) ends: requestFunction is called
Wake(i) ==
  /\ limiterReqs[i].state = "sleeping"
  /\ limiterReqs[i].wake <= now
  /\ limiterReqs' = [limiterReqs EXCEPT ![i].state = "running"]
  /\ UNCHANGED <<now, limiterQueues, limiterActive, lastRequestTime, limiterHistory,
                 processTimers, schedVars, storage, toolVars>>

\* requestFunction settles: resolve or reject, then the finally block
\* decrements the count and sets the processQueue timer
FnDone(i, ok) ==
  /\ limiterReqs[i].state = "running"
  /\ LET t == limiterReqs[i].type
     IN /\ limiterReqs' = [limiterReqs EXCEPT ![i].state = IF ok THEN "resolved" ELSE "rejected"]
        /\ limiterActive' = [limiterActive EXCEPT ![t] = Max(0, @ - 1)]
        /\ processTimers' = [processTimers EXCEPT ![t] = Append(@, now + ProcessDelayMs)]
  /\ UNCHANGED <<now, limiterQueues, lastRequestTime, limiterHistory, schedVars, storage, toolVars>>

\* the timer of line 142 fires: processQueue(apiType)
ProcessTimer(t) ==
  /\ processTimers[t] # <<>>
  /\ Head(processTimers[t]) <= now
  /\ processTimers' = [processTimers EXCEPT ![t] = Tail(@)]
  /\ ProcessQueue(t, limiterQueues[t], limiterReqs)
  /\ UNCHANGED <<now, schedVars, storage, toolVars>>

\* the deadlines of the pending timers
Deadlines ==
  {limiterReqs[i].wake : i \in {j \in 1..Len(limiterReqs) : limiterReqs[j].state = "sleeping"}}
  \cup {processTimers[t][1] : t \in {u \in ConfiguredTypes : processTimers[u] # <<>>}}

\* time passes until the next timer is due; a due timer fires first
Advance ==
  /\ Deadlines # {}
  /\ \A d \in Deadlines : d > now
  /\ now' = CHOOSE d \in Deadlines : \A e \in Deadlines : d <= e
  /\ UNCHANGED <<limiterQueues, limiterActive, lastRequestTime, limiterHistory,
                 limiterReqs, processTimers, schedVars, storage, toolVars>>

LimiterNext ==
  \/ \E t \in LimiterTypes : QueueRequest(t)
  \/ \E i \in 1..Len(limiterReqs) : Wake(i)
  \/ \E i \in 1..Len(limiterReqs), ok \in BOOLEAN : FnDone(i, ok)
  \/ \E t \in ConfiguredTypes : ProcessTimer(t)
  \/ Advance

LimiterSpec == Init /\ [][LimiterNext]_vars

\* Scenario C of the specification: the requests are handed to queueRequest
\* at once, before any timer fires
Burst(t) ==
  /\ Len(limiterReqs) < BurstSize
  /\ now = StartTime
  /\ Enqueued(t)
  /\ UNCHANGED <<now, processTimers, schedVars, storage, toolVars>>

\* Scenario C: every requestFunction succeeds, before the next timer is due
AdvanceQuick ==
  /\ \A i \in 1..Len(limiterReqs) : limiterReqs[i].state # "running"
  /\ Advance

ScenarioCNext ==
  \/ Burst("Summarizer")
  \/ \E i \in 1..Len(limiterReqs) : Wake(i)
  \/ \E i \in 1..Len(limiterReqs) : FnDone(i, TRUE)
  \/ ProcessTimer("Summarizer")
  \/ AdvanceQuick

ScenarioC == Init /\ [][ScenarioCNext]_vars

\* a burst that uses up the per-minute budget of the type exactly, or less
BurstWindow(t) ==
  /\ Len(limiterReqs) < WindowBurst
  /\ now = StartTime
  /\ Enqueued(t)
  /\ UNCHANGED <<now, processTimers, schedVars, storage, toolVars>>

WindowNext ==
  \/ BurstWindow("Proofreader")
  \/ \E i \in 1..Len(limiterReqs) : Wake(i)
  \/ \E i \in 1..Len(limiterReqs), ok \in BOOLEAN : FnDone(i, ok)
  \/ ProcessTimer("Proofreader")
  \/ Advance

WindowSpec == Init /\ [][WindowNext]_vars

\* the api types queueRequest is called with in LimiterLiveSpec: one with a
\* policy in config and one without
LiveTypes == {"Rewriter", "Gemini"}

LimiterLiveNext ==
  \/ \E t \in LiveTypes : QueueRequest(t)
  \/ \E i \in 1..Len(limiterReqs) : Wake(i)
  \/ \E i \in 1..Len(limiterReqs), ok \in BOOLEAN : FnDone(i, ok)
  \/ \E t \in ConfiguredTypes : ProcessTimer(t)
  \/ Advance

\* timers fire and every requestFunction settles
LimiterFairness ==
  /\ WF_vars(Advance)
  /\ \A t \in ConfiguredTypes : WF_vars(ProcessTimer(t))
  /\ \A i \in 1..MaxRLReq :
       /\ WF_vars(i <= Len(limiterReqs) /\ Wake(i))
       /\ WF_vars(i <= Len(limiterReqs) /\ \E ok \in BOOLEAN : FnDone(i, ok))

LimiterLiveSpec == Init /\ [][LimiterLiveNext]_vars /\ LimiterFairness

Outcomes == {"ok"} \cup WorkErrors

\* how a provider create and a callback end in SessionSpec
SessionOutcomes == {"ok", "NETWORK_ERROR"}

Next ==
  \/ \E p \in PriorityNames, n \in RetryOptions : Add(p, n)
  \/ SleepDone
  \/ \E r \in Ids : Timeout(r)
  \/ \E r \in Ids : RetryFire(r)
  \/ \E r \in Ids, o \in Outcomes : WorkDone(r, o)
  \/ Pause
  \/ Resume
  \/ ClearQueue

Spec == Init /\ [][Next]_vars

\* timers fire, and every requestFn returns or is cut off by its timeout
Fairness ==
  /\ WF_vars(SleepDone)
  /\ \A r \in 1..MaxReq :
       /\ WF_vars(RetryFire(r))
       /\ WF_vars(Timeout(r) \/ \E o \in Outcomes : WorkDone(r, o))

LiveSpec == Spec /\ Fairness

\* add, the drain loop and the retry timers alone: nobody calls pause,
\* resume or clearQueue
DrainNext ==
  \/ \E p \in PriorityNames, n \in RetryOptions : AddDrain(p, n)
  \/ SleepDone
  \/ \E r \in Ids : Timeout(r)
  \/ \E r \in Ids : RetryFire(r)
  \/ \E r \in Ids, o \in Outcomes : WorkDone(r, o)

DrainSpec == Init /\ [][DrainNext]_vars

\* add() of the backoff scenario: requests with 3 and 4 attempts
AddBackoff(p, n) ==
  /\ Len(requests) < MaxBackoffReq
  /\ Enqueue(p, n, "unknown", "plain")
  /\ UNCHANGED <<sessionVars, sweepVars, paused, limiterVars, storage, toolVars>>

\* how a requestFn ends in BackoffSpec
BackoffOutcomes == {"ok", "RATE_LIMIT"}

BackoffNext ==
  \/ \E p \in SessionPriorities, n \in BackoffRetryOptions : AddBackoff(p, n)
  \/ SleepDone
  \/ \E r \in Ids : Timeout(r)
  \/ \E r \in Ids : RetryFire(r)
  \/ \E r \in Ids, o \in BackoffOutcomes : WorkDone(r, o)

BackoffSpec == Init /\ [][BackoffNext]_vars

SessionNext ==
  \/ \E t \in ApiTypes, p \in SessionPriorities, n \in RetryOptions : WithAISession(t, p, n)
  \/ SleepDone
  \/ \E r \in Ids : Timeout(r)
  \/ \E r \in Ids : RetryFire(r)
  \/ \E h \in Handles, o \in SessionOutcomes : CreateDone(h, o)
  \/ \E h \in Handles, o \in SessionOutcomes : CallbackDone(h, o)
  \/ \E h \in Handles, ok \in BOOLEAN : DestroyDone(h, ok)
  \/ Cleanup
  \/ \E h \in Handles, ok \in BOOLEAN : SweepDestroyDone(h, ok)

SessionSpec == Init /\ [][SessionNext]_vars

\* the api types withAISession is called with in CreateSpec: one with a
\* provider and one createSession does not know
CreateTypes == {"Rewriter", "Gemini"}

\* withAISession and the attempts it starts, for known and unknown api types
CreateNext ==
  \/ \E t \in CreateTypes, p \in SessionPriorities, n \in RetryOptions : WithAISession(t, p, n)
  \/ SleepDone
  \/ \E r \in Ids : Timeout(r)
  \/ \E r \in Ids : RetryFire(r)
  \/ \E h \in Handles, o \in SessionOutcomes : CreateDone(h, o)
  \/ \E h \in Handles, o \in SessionOutcomes : CallbackDone(h, o)
  \/ \E h \in Handles, ok \in BOOLEAN : DestroyDone(h, ok)

CreateSpec == Init /\ [][CreateNext]_vars

\* ------------------------------------------- EnhancedErrorHandler: calls
\* one call of a function of the handler, with its arguments and its result
HandlerCall(fn, error, attempt, baseMs, jitter, classified, retry, delay) ==
  [fn |-> fn, error |-> error, attempt |-> attempt, baseMs |-> baseMs, jitter |-> jitter,
   classified |-> classified, retry |-> retry, delay |-> delay]

\* the log holds the last call, and before it the call that preceded it
\* when both are backoffDelayMs calls for the same error and base
Logged(entry) ==
  IF /\ handlerLog # <<>>
     /\ entry.fn = "backoffDelayMs"
     /\ handlerLog[Len(handlerLog)].fn = entry.fn
     /\ handlerLog[Len(handlerLog)].error = entry.error
     /\ handlerLog[Len(handlerLog)].baseMs = entry.baseMs
  THEN <<handlerLog[Len(handlerLog)], entry>>
  ELSE <<entry>>

ClassifyCall(error) ==
  /\ handlerLog' = Logged(HandlerCall("classify", error, 0, 0, 0, Classify(error), FALSE, 0))
  /\ UNCHANGED <<schedVars, limiterVars, storage, monitorVars, requestHistory>>

ShouldRetryCall(error) ==
  /\ handlerLog' =
       Logged(HandlerCall("shouldRetry", error, 0, 0, 0, error, shouldRetry(error.type), 0))
  /\ UNCHANGED <<schedVars, limiterVars, storage, monitorVars, requestHistory>>

BackoffDelayCall(error, attempt, baseMs) ==
  /\ \E jitter \in JitterDraws :
       handlerLog' = Logged(HandlerCall("backoffDelayMs", error, attempt, baseMs, jitter,
                                        error, FALSE,
                                        backoffDelayMs(error.type, attempt, baseMs, jitter)))
  /\ UNCHANGED <<schedVars, limiterVars, storage, monitorVars, requestHistory>>

HandlerNext ==
  \/ \E error \in ErrorValues : ClassifyCall(error)
  \/ \E error \in RetryInputs : ShouldRetryCall(error)
  \/ \E error \in RetryInputs, attempt \in AttemptOptions, baseMs \in BaseOptions :
       BackoffDelayCall(error, attempt, baseMs)

HandlerSpec == Init /\ [][HandlerNext]_vars

\* ------------------------------------------- PerformanceMonitor
\* the operation names withAISession measures under, for api type Rewriter
OpNames == {"Rewriter_createSession", "Rewriter_execute"}

\* performance.now() - start when fn has settled, in ms
DurationOptions == {5, 20}

\* how fn settles: with a value, rejecting with an Error, or rejecting with
\* no reason (Promise.reject(), throw undefined)
FnOutcomes == {"value", "Error", "undefined"}

\* getMemoryUsage(): the heap in use, in 1/1000 MB
MemoryReadings == {0, 50004, 50010}

\* the limit argument of getRecentOperations and getSlowestOperations
LimitOptions == {1, 2}

\* a record of operationHistory; seq is the number of the push that made it
Record(name, duration, success, seq) ==
  [name |-> name, duration |-> duration, success |-> success, seq |-> seq]

\* array.slice(-size)
SliceLast(array, size) ==
  IF Len(array) > size THEN SubSeq(array, Len(array) - size + 1, Len(array)) ELSE array

\* array.slice(0, limit)
SliceFirst(array, limit) == SubSeq(array, 1, Min(limit, Len(array)))

\* array.reverse(), on a copy
Reverse(array) == [i \in 1..Len(array) |-> array[Len(array) + 1 - i]]

\* recordOperation: the history after the push and the trim
recordOperation(history, name, duration, success, seq) ==
  SliceLast(Append(history, Record(name, duration, success, seq)), maxHistorySize)

\* updateAggregatedMetrics: the stats after one record.  A new entry starts
\* with minDuration Infinity and maxDuration 0, so its first record sets
\* both; averageDuration is the quotient totalDuration / count
updateAggregatedMetrics(stats, name, duration, success) ==
  LET has == name \in DOMAIN stats
      count == IF has THEN stats[name].count + 1 ELSE 1
      total == IF has THEN stats[name].totalDuration + duration ELSE duration
      entry == [count |-> count,
                totalDuration |-> total,
                averageDuration |-> [num |-> total, den |-> count],
                minDuration |-> IF has THEN Min(stats[name].minDuration, duration)
                                ELSE duration,
                maxDuration |-> IF has THEN Max(stats[name].maxDuration, duration)
                                ELSE Max(0, duration),
                successCount |-> (IF has THEN stats[name].successCount ELSE 0)
                                   + (IF success THEN 1 ELSE 0),
                failureCount |-> (IF has THEN stats[name].failureCount ELSE 0)
                                   + (IF success THEN 0 ELSE 1)]
  IN [n \in DOMAIN stats \cup {name} |-> IF n = name THEN entry ELSE stats[n]]

\* the key of a call in activeOperations: `${operationName}_${startTime}`
ActiveKey(call) == <<call.name, call.startTime>>

\* what the last call of the monitor returned
Returns(call, value) == returned' = [call |-> call, value |-> value]

NoReturn == Returns("none", <<>>)

\* measureOperation up to `await fn()`: the call is added to activeOperations
MeasureStart(name) ==
  /\ Len(calls) < MaxMeasured
  /\ calls' = Append(calls, [name |-> name, startTime |-> now, status |-> "running",
                             outcome |-> "none", result |-> "none", duration |-> 0,
                             clears |-> clears])
  /\ activeOperations' = activeOperations \cup {<<name, now>>}
  /\ NoReturn
  /\ UNCHANGED <<operationHistory, metrics, memoryBaseline, recorded, clears>>
  /\ UNCHANGED <<schedVars, limiterVars, storage, handlerLog, requestHistory>>

\* fn has settled.  With a value: the success is recorded and the value
\* returned.  With an Error: the failure is recorded and the error thrown
\* again.  With no reason: reading err.message raises a TypeError before
\* recordOperation is called, and the TypeError leaves the function.  The
\* finally block removes the key of the call in every case.
MeasureEnd(i, outcome, duration) ==
  /\ calls[i].status = "running"
  /\ activeOperations' = activeOperations \ {ActiveKey(calls[i])}
  /\ calls' = [calls EXCEPT
                 ![i].status = "finished",
                 ![i].outcome = outcome,
                 ![i].result = CASE outcome = "value" -> "returned the value"
                                 [] outcome = "Error" -> "raised the reason"
                                 [] outcome = "undefined" -> "raised a TypeError",
                 ![i].duration = duration,
                 ![i].clears = clears]
  /\ IF outcome = "undefined"
     THEN UNCHANGED <<operationHistory, metrics, recorded>>
     ELSE /\ recorded' = recorded + 1
          /\ operationHistory' = recordOperation(operationHistory, calls[i].name, duration,
                                                 outcome = "value", recorded + 1)
          /\ metrics' = updateAggregatedMetrics(metrics, calls[i].name, duration,
                                                outcome = "value")
  /\ NoReturn
  /\ UNCHANGED <<memoryBaseline, clears>>
  /\ UNCHANGED <<schedVars, limiterVars, storage, handlerLog, requestHistory>>

\* the durations in an array of records
Durations(array) == {array[i].duration : i \in 1..Len(array)}

\* array.sort((a, b) => b.duration - a.duration): stable, the longest
\* first; ds is the set of durations still to place
RECURSIVE SortedAmong(_, _)
SortedAmong(array, ds) ==
  IF ds = {} THEN <<>>
  ELSE LET d == CHOOSE x \in ds : \A y \in ds : x >= y
       IN SelectSeq(array, LAMBDA r : r.duration = d) \o SortedAmong(array, ds \ {d})

SortedByDuration(array) == SortedAmong(array, Durations(array))

\* getRecentOperations(limit)
getRecentOperations(limit) == Reverse(SliceLast(operationHistory, limit))

\* getOverallSuccessRate(): 0 for an empty history, else the percentage a
\* toFixed(1) rounds to one decimal, here in tenths of a percent
getOverallSuccessRate ==
  IF Len(operationHistory) = 0 THEN 0
  ELSE LET successCount == Cardinality({i \in 1..Len(operationHistory) :
                                          operationHistory[i].success})
       IN (2000 * successCount + Len(operationHistory)) \div (2 * Len(operationHistory))

\* x.toFixed(2) for x in 1/1000, in 1/100
ToFixed2(x) == IF x >= 0 THEN (x + 5) \div 10 ELSE 0 - ((5 - x) \div 10)

\* getPerformanceSummary(), with the heap reading at the call; uptime and
\* the three derived operation fields are left out
getPerformanceSummary(memory) ==
  [memoryDelta |-> ToFixed2(memory - memoryBaseline),
   activeOperations |-> Cardinality(activeOperations),
   totalOperations |-> Len(operationHistory),
   operationTypes |-> Cardinality(DOMAIN metrics),
   successRate |-> getOverallSuccessRate]

\* checkPerformanceAlerts(): the types of the alerts it returns
checkPerformanceAlerts(memory) ==
  LET summary == getPerformanceSummary(memory)
  IN (IF summary.memoryDelta > 5000 THEN {"memory"} ELSE {})
       \cup (IF summary.successRate < 900 THEN {"success_rate"} ELSE {})
       \cup (IF summary.activeOperations > 10 THEN {"active_operations"} ELSE {})

GetPerformanceSummary(memory) ==
  /\ Returns("getPerformanceSummary", getPerformanceSummary(memory))
  /\ UNCHANGED <<operationHistory, metrics, activeOperations, memoryBaseline, calls,
                 recorded, clears>>
  /\ UNCHANGED <<schedVars, limiterVars, storage, handlerLog, requestHistory>>

GetRecentOperations(limit) ==
  /\ Returns("getRecentOperations", getRecentOperations(limit))
  /\ UNCHANGED <<operationHistory, metrics, activeOperations, memoryBaseline, calls,
                 recorded, clears>>
  /\ UNCHANGED <<schedVars, limiterVars, storage, handlerLog, requestHistory>>

\* getSlowestOperations(limit): sort() sorts operationHistory itself
GetSlowestOperations(limit) ==
  /\ operationHistory' = SortedByDuration(operationHistory)
  /\ Returns("getSlowestOperations", SliceFirst(SortedByDuration(operationHistory), limit))
  /\ UNCHANGED <<metrics, activeOperations, memoryBaseline, calls, recorded, clears>>
  /\ UNCHANGED <<schedVars, limiterVars, storage, handlerLog, requestHistory>>

CheckPerformanceAlerts(memory) ==
  /\ Returns("checkPerformanceAlerts", checkPerformanceAlerts(memory))
  /\ UNCHANGED <<operationHistory, metrics, activeOperations, memoryBaseline, calls,
                 recorded, clears>>
  /\ UNCHANGED <<schedVars, limiterVars, storage, handlerLog, requestHistory>>

\* exportMetrics(): the summary, the stats, getRecentOperations(50), then
\* getSlowestOperations(20), which sorts operationHistory
ExportMetrics(memory) ==
  /\ operationHistory' = SortedByDuration(operationHistory)
  /\ Returns("exportMetrics",
             [summary |-> getPerformanceSummary(memory),
              operationStats |-> metrics,
              recentOperations |-> getRecentOperations(50),
              slowestOperations |-> SliceFirst(SortedByDuration(operationHistory), 20)])
  /\ UNCHANGED <<metrics, activeOperations, memoryBaseline, calls, recorded, clears>>
  /\ UNCHANGED <<schedVars, limiterVars, storage, handlerLog, requestHistory>>

ClearMetrics(memory) ==
  /\ clears < MaxClears
  /\ clears' = clears + 1
  /\ metrics' = <<>>
  /\ operationHistory' = <<>>
  /\ memoryBaseline' = memory
  /\ NoReturn
  /\ UNCHANGED <<activeOperations, calls, recorded>>
  /\ UNCHANGED <<schedVars, limiterVars, storage, handlerLog, requestHistory>>

\* a millisecond passes
Tick ==
  /\ now < StartTime + MaxTicks
  /\ now' = now + 1
  /\ UNCHANGED <<schedVars, storage, limiterQueues, limiterActive, lastRequestTime, limiterHistory,
                 limiterReqs, processTimers, toolVars>>

MonitorNext ==
  \/ \E name \in OpNames : MeasureStart(name)
  \/ \E i \in 1..Len(calls), outcome \in FnOutcomes, duration \in DurationOptions :
       MeasureEnd(i, outcome, duration)
  \/ \E memory \in MemoryReadings : GetPerformanceSummary(memory)
  \/ \E limit \in LimitOptions : GetRecentOperations(limit)
  \/ \E limit \in LimitOptions : GetSlowestOperations(limit)
  \/ \E memory \in MemoryReadings : CheckPerformanceAlerts(memory)
  \/ \E memory \in MemoryReadings : ExportMetrics(memory)
  \/ \E memory \in MemoryReadings : ClearMetrics(memory)
  \/ Tick

MonitorSpec == Init /\ [][MonitorNext]_vars

\* ------------------------------------------- AIRequestQueue: the history
\* the number of the push that made the newest record, 0 for no record
LastSeq(history) == IF history = <<>> THEN 0 ELSE history[Len(history)].seq

\* recordRequest: the history after the push and the trim
recordRequest(history, id, status, attempt) ==
  SliceLast(Append(history, [id |-> id, status |-> status, attempt |-> attempt,
                             seq |-> LastSeq(history) + 1]),
            queueMaxHistorySize)

\* getSuccessRate(): as getOverallSuccessRate, over the records 'completed'
getSuccessRate ==
  IF Len(requestHistory) = 0 THEN 0
  ELSE LET successCount == Cardinality({i \in 1..Len(requestHistory) :
                                          requestHistory[i].status = "completed"})
       IN (2000 * successCount + Len(requestHistory)) \div (2 * Len(requestHistory))

\* getQueueByPriority(): per priority level, how many requests are queued
getQueueByPriority ==
  [level \in {requests[queue[i]].priority : i \in 1..Len(queue)} |->
     Cardinality({i \in 1..Len(queue) : requests[queue[i]].priority = level})]

\* getStatus(); the average processing time is left out
getStatus ==
  [queueLength |-> Len(queue),
   processing |-> processing,
   activeRequests |-> Cardinality(activeRequests),
   totalProcessed |-> Len(requestHistory),
   successRate |-> getSuccessRate,
   queueByPriority |-> getQueueByPriority,
   recentRequests |-> Reverse(SliceLast(requestHistory, 10))]

\* the queue's checkPerformanceAlerts(): the types of its alerts
queueAlerts ==
  (IF getStatus.queueLength > 20 THEN {"queue_length"} ELSE {})
    \cup (IF getStatus.successRate < 850 THEN {"success_rate"} ELSE {})

\* the records of the behaviour: those after the history of an earlier phase
QueuePrefill == queueMaxHistorySize - 2

\* recordRequest(request, status), as add and executeRequest call it
RecordRequest(id, status) ==
  /\ LastSeq(requestHistory) < QueuePrefill + MaxRecordRequests
  /\ requestHistory' = recordRequest(requestHistory, id, status, 1)
  /\ NoReturn
  /\ UNCHANGED <<operationHistory, metrics, activeOperations, memoryBaseline, calls,
                 recorded, clears>>
  /\ UNCHANGED <<schedVars, limiterVars, storage, handlerLog>>

GetStatus ==
  /\ Returns("getStatus", getStatus)
  /\ UNCHANGED <<operationHistory, metrics, activeOperations, memoryBaseline, calls,
                 recorded, clears>>
  /\ UNCHANGED <<schedVars, limiterVars, storage, handlerLog, requestHistory>>

\* exportData(): the status, the history array itself, the active requests
ExportData ==
  /\ Returns("exportData", [status |-> getStatus, history |-> requestHistory,
                            activeRequests |-> activeRequests])
  /\ UNCHANGED <<operationHistory, metrics, activeOperations, memoryBaseline, calls,
                 recorded, clears>>
  /\ UNCHANGED <<schedVars, limiterVars, storage, handlerLog, requestHistory>>

GetPerformanceMetrics ==
  /\ Returns("getPerformanceMetrics", [status |-> getStatus, alerts |-> queueAlerts])
  /\ UNCHANGED <<operationHistory, metrics, activeOperations, memoryBaseline, calls,
                 recorded, clears>>
  /\ UNCHANGED <<schedVars, limiterVars, storage, handlerLog, requestHistory>>

\* ------------------------------------------- histories that are nearly full
\* the history of the monitor, one record short of maxHistorySize
MonitorPrefill == maxHistorySize - 1

\* a monitor that measured MonitorPrefill successful 5 ms operations
MonitorFull ==
  /\ operationHistory = [i \in 1..MonitorPrefill |-> Record("Rewriter_execute", 5, TRUE, i)]
  /\ metrics = [name \in {"Rewriter_execute"} |->
                  [count |-> MonitorPrefill,
                   totalDuration |-> 5 * MonitorPrefill,
                   averageDuration |-> [num |-> 5 * MonitorPrefill, den |-> MonitorPrefill],
                   minDuration |-> 5,
                   maxDuration |-> 5,
                   successCount |-> MonitorPrefill,
                   failureCount |-> 0]]
  /\ activeOperations = {}
  /\ memoryBaseline = 0
  /\ calls = <<>>
  /\ recorded = MonitorPrefill
  /\ clears = 0
  /\ returned = [call |-> "none", value |-> <<>>]

\* a queue that completed QueuePrefill / 3 requests at their first attempt:
\* each was recorded 'queued', 'processing' and 'completed'
QueueFull ==
  requestHistory =
    [i \in 1..QueuePrefill |->
       [id |-> (i + 2) \div 3,
        status |-> CASE i % 3 = 1 -> "queued" [] i % 3 = 2 -> "processing"
                     [] OTHER -> "completed",
        attempt |-> IF i % 3 = 1 THEN 0 ELSE 1,
        seq |-> i]]

FullInit == SchedInit /\ MonitorFull /\ handlerLog = <<>> /\ QueueFull /\ storage = <<>>

\* the statuses recordRequest is called with after the first attempt began
RecordStatuses == {"completed", "failed"}

FullHistoryNext ==
  \/ \E name \in OpNames : MeasureStart(name)
  \/ \E i \in 1..Len(calls), outcome \in {"value"}, duration \in DurationOptions :
       MeasureEnd(i, outcome, duration)
  \/ \E limit \in LimitOptions : GetRecentOperations(limit)
  \/ \E limit \in LimitOptions : GetSlowestOperations(limit)
  \/ \E status \in RecordStatuses : RecordRequest(QueuePrefill \div 3 + 1, status)
  \/ GetStatus
  \/ ExportData
  \/ GetPerformanceMetrics

FullHistorySpec == FullInit /\ [][FullHistoryNext]_vars

\* the scheduler with the introspection methods of the queue
StatusNext ==
  \/ Next
  \/ GetStatus
  \/ ExportData
  \/ GetPerformanceMetrics

StatusSpec == Init /\ [][StatusNext]_vars

\* ------------------------- AIRequestQueue: the scheduler with its history
\* the recordRequest calls of one step of the queue, in the order of the
\* code: 'queued' for the request add() created (line 54), 'completed' or
\* 'failed' for the attempt that ended (lines 121, 133), 'processing' for
\* the attempt that began (line 97)
Lifecycle ==
  LET added == Len(requests') > Len(requests)
      ended == awaiting \ awaiting'
      began == awaiting' \ awaiting
      h1 == IF added THEN recordRequest(requestHistory, Len(requests'), "queued", 0)
            ELSE requestHistory
      h2 == IF ended # {}
            THEN LET r == CHOOSE x \in ended : TRUE
                 IN recordRequest(h1, r, requests'[r].status, requests'[r].attempts)
            ELSE h1
      h3 == IF began # {}
            THEN LET r == CHOOSE x \in began : TRUE
                 IN recordRequest(h2, r, "processing", requests'[r].attempts)
            ELSE h2
  IN requestHistory' = h3

\* what the queue with its history leaves alone
RecordedFrame ==
  UNCHANGED <<sessionVars, sweepVars, paused, limiterVars, storage, monitorVars, handlerLog>>

AddRecorded(p, n) ==
  /\ Len(requests) < MaxReq
  /\ Enqueue(p, n, "unknown", "plain")
  /\ Lifecycle
  /\ RecordedFrame

WorkDoneRecorded(r, outcome) ==
  /\ r \in awaiting
  /\ requests[r].fn = "plain"
  /\ ExecSettle(r, outcome)
  /\ Lifecycle
  /\ UNCHANGED work
  /\ RecordedFrame

TimeoutRecorded(r) ==
  /\ r \in awaiting
  /\ ExecSettle(r, classify(TimeoutMessage))
  /\ Lifecycle
  /\ UNCHANGED work
  /\ RecordedFrame

RetryFireRecorded(r) ==
  /\ r \in DOMAIN retryTimers
  /\ retryTimers[r] = 0
  /\ Process(<<r>> \o queue, requests, sleeping, DropTimer(retryTimers, r))
  /\ Lifecycle
  /\ RecordedFrame

SleepDoneRecorded ==
  /\ sleeping > 0
  /\ IF queue # <<>>
     THEN StartHead(queue, requests, sleeping - 1, SleepEnded(retryTimers))
     ELSE /\ processing' = FALSE
          /\ sleeping' = sleeping - 1
          /\ retryTimers' = SleepEnded(retryTimers)
          /\ UNCHANGED <<queue, requests, activeRequests, awaiting, work>>
  /\ Lifecycle
  /\ RecordedFrame

RecordedNext ==
  \/ \E p \in PriorityNames, n \in RetryOptions : AddRecorded(p, n)
  \/ SleepDoneRecorded
  \/ \E r \in Ids : TimeoutRecorded(r)
  \/ \E r \in Ids : RetryFireRecorded(r)
  \/ \E r \in Ids, o \in Outcomes : WorkDoneRecorded(r, o)

RecordedSpec == Init /\ [][RecordedNext]_vars

\* ------------------------------------------------------------ CacheManager
\* CacheManager.cachePrefix
cachePrefix == "chrome_mnemonic_cache_"

\* CacheManager.defaultTTL (5 * 60 * 1000), in ms
defaultTTL == 300000

\* CacheManager.maxCacheSize (50 * 1024 * 1024), in bytes
maxCacheSize == 52428800

\* the keys getCachedData and setCachedData are called with
CacheKeys == {"history", "summary"}

\* JSON.stringify(processedData).length of the data handed to setCachedData
SizeOptions == {1000, 30000000}

\* by how many ms the clock advances between two calls of the cache
ElapseOptions == {100000, defaultTTL + 1}

\* by how many ms the clock advances in a behaviour of CacheSpec
MaxCacheClock == 400001

\* the name of a storage item: prefix + key
ItemName(prefix, key) == <<prefix, key>>

\* chrome.storage.local.set({[name]: value})
StorageSet(store, name, value) ==
  [n \in DOMAIN store \cup {name} |-> IF n = name THEN value ELSE store[n]]

\* chrome.storage.local.remove(names): names without an item are ignored
StorageRemove(store, names) == [n \in DOMAIN store \ names |-> store[n]]

\* the items whose name starts with cachePrefix
CacheItems(store) == {n \in DOMAIN store : n[1] = cachePrefix}

\* reduce((sum, entry) => sum + (entry.size || 0), 0) over the items S
RECURSIVE SizeOf(_, _)
SizeOf(store, S) ==
  IF S = {} THEN 0
  ELSE LET n == CHOOSE x \in S : TRUE IN store[n].size + SizeOf(store, S \ {n})

\* cleanupCache() at time `at`.  The entries are built as { key, ...value }:
\* the key field of the stored value (the key without prefix) replaces the
\* item name, so the expired entries are removed under names without the
\* prefix.  When totalSize exceeds maxCacheSize, the filter callback reads
\* expiredKeys, a const of the if block above and out of scope there: a
\* ReferenceError on the first entry, caught and logged by the catch block,
\* and nothing is removed.
cleanupCache(store, at) ==
  LET cacheEntries == CacheItems(store)
      entryKey(n) == ItemName("", store[n].key)
      expiredEntries == {n \in cacheEntries : at - store[n].timestamp > store[n].ttl}
      afterExpired == StorageRemove(store, {entryKey(n) : n \in expiredEntries})
      totalSize == SizeOf(store, cacheEntries)
  IN IF totalSize > maxCacheSize THEN afterExpired ELSE afterExpired

\* setCachedData(key, data) with the default ttl: set the item, cleanupCache
SetCachedData(key, size) ==
  /\ storage' = cleanupCache(
       StorageSet(storage, ItemName(cachePrefix, key),
                  [timestamp |-> now, accessTime |-> now, size |-> size,
                   ttl |-> defaultTTL, key |-> key]),
       now)
  /\ UNCHANGED <<schedVars, limiterVars, toolVars>>

\* getCachedData(key) with the default ttl and no fetchFn: a valid entry
\* gets a new access time, an expired one is removed
GetCachedData(key) ==
  LET cacheKey == ItemName(cachePrefix, key)
  IN /\ cacheKey \in DOMAIN storage
     /\ storage' =
          IF now - storage[cacheKey].timestamp < defaultTTL
          THEN StorageSet(storage, cacheKey, [storage[cacheKey] EXCEPT !.accessTime = now])
          ELSE StorageRemove(storage, {cacheKey})
     /\ UNCHANGED <<schedVars, limiterVars, toolVars>>

\* time passes between two calls
Elapse(d) ==
  /\ now + d <= StartTime + MaxCacheClock
  /\ now' = now + d
  /\ UNCHANGED <<schedVars, limiterQueues, limiterActive, lastRequestTime, limiterHistory,
                 limiterReqs, processTimers, toolVars, storage>>

CacheNext ==
  \/ \E key \in CacheKeys, size \in SizeOptions : SetCachedData(key, size)
  \/ \E key \in CacheKeys : GetCachedData(key)
  \/ \E d \in ElapseOptions : Elapse(d)

CacheSpec == Init /\ [][CacheNext]_vars
\* ------------------------------------------------------------------ claims
\* the requests of type t the limiter has admitted and that have not settled
InFlight(t) ==
  {i \in 1..Len(limiterReqs) :
     limiterReqs[i].type = t /\ limiterReqs[i].state \in {"sleeping", "running"}}

\* C2: for every api type with a policy, activeCount and the number of
\* requests admitted and not yet at their outcome never exceed maxConcurrent.
AdmissionSafety ==
  \A t \in ConfiguredTypes :
    /\ limiterActive[t] <= config[t].maxConcurrent
    /\ Cardinality(InFlight(t)) <= config[t].maxConcurrent

\* C2 witness: both Summarizer slots are taken while a third request waits
AdmissionSafetyWitness ==
  /\ limiterActive["Summarizer"] = config["Summarizer"].maxConcurrent
  /\ Cardinality(InFlight("Summarizer")) = config["Summarizer"].maxConcurrent
  /\ limiterQueues["Summarizer"] # <<>>

\* the recorded admissions of type t in the trailing window [at - 60000, at]
InWindow(t, at) ==
  SelectSeq(limiterHistory[t], LAMBDA time : at - WindowMs <= time /\ time <= at)

\* C6: for every api type with a policy, at most maxPerMinute recorded
\* admissions lie in the trailing 60 s window ending now.
WindowBudget ==
  \A t \in ConfiguredTypes : Len(InWindow(t, now)) <= config[t].maxPerMinute

\* C7: for every api type with a policy, two successive admissions are at
\* least minInterval apart.
Spacing ==
  \A t \in ConfiguredTypes :
    \A i \in 1..(Len(limiterHistory[t]) - 1) :
      limiterHistory[t][i + 1] - limiterHistory[t][i] >= config[t].minInterval
\* C1: every session acquired for an attempt is released exactly once: never
\* twice, and once by the time the attempt's requestFn has settled; nothing
\* is released that was not acquired.
ReleasedExactlyOnce ==
  \A h \in Handles :
    /\ destroyCalls[h] <= 1
    /\ (work[h].phase = "settled" /\ work[h].session) => destroyCalls[h] = 1
    /\ destroyCalls[h] > 0 => work[h].session

\* the requests of api type t whose attempt the queue is executing
Executing(t) == {r \in awaiting : requests[r].apiType = t}

\* C8: an attempt of type R run through withAISession is recorded with the
\* rate limiter: activeCount(R) > 0 and the admission time is stored while
\* one is executing, and activeCount(R) = 0 when none is.
AttemptsAdmitted ==
  \A t \in ApiTypes :
    /\ Executing(t) # {} =>
         /\ limiterActive[t] > 0
         /\ lastRequestTime[t] > 0
         /\ limiterHistory[t] # <<>>
    /\ Executing(t) = {} => limiterActive[t] = 0

\* the requests whose attempt starts in this step
Started == awaiting' \ awaiting

\* C3: the request the drain loop takes has the minimal priority rank among
\* the queued requests: none more urgent is left waiting in the queue.
PriorityOrder ==
  [][\A r \in Started : \A i \in 1..Len(queue') :
        requests'[r].priority <= requests'[queue'[i]].priority]_vars

\* C4: a request with retries = N is never executed more than N times, is
\* rejected by the failure path only after its N-th attempt, and is rejected
\* at once when that attempt fails; a retry is scheduled only before it.
RetryBound ==
  \A r \in Ids :
    /\ requests[r].attempts <= requests[r].maxRetries
    /\ requests[r].promise = "rejected" => requests[r].attempts = requests[r].maxRetries
    /\ (requests[r].status = "failed" /\ requests[r].attempts = requests[r].maxRetries)
         => requests[r].promise = "rejected"
    /\ r \in DOMAIN retryTimers => requests[r].attempts < requests[r].maxRetries

\* C4 witness: a request with retries = 2 was rejected after its second
\* attempt failed with a retryable error
RetryBoundWitness ==
  \E r \in Ids :
    /\ requests[r].maxRetries = 2
    /\ requests[r].attempts = 2
    /\ requests[r].status = "failed"
    /\ shouldRetry(requests[r].lastError)
    /\ requests[r].promise = "rejected"

\* C5: at most one drain loop is running and at most one request is in the
\* processing state.
SingleDrainLoop ==
  /\ Cardinality(awaiting) + sleeping <= 1
  /\ Cardinality({r \in Ids : requests[r].status = "processing"}) <= 1

\* r is in the queue
Queued(r) == \E i \in 1..Len(queue) : queue[i] = r

\* C9: a request whose attempt failed with an error that shouldRetry refuses
\* is rejected after that attempt and is not re-queued.
PermanentNotRetried ==
  \A r \in Ids :
    (requests[r].status = "failed" /\ ~shouldRetry(requests[r].lastError)) =>
      /\ requests[r].promise # "pending"
      /\ r \notin DOMAIN retryTimers
      /\ ~Queued(r)
\* r reached its end: completed with the promise resolved, or the promise
\* rejected; and r is neither queued, nor in backoff, nor executing
Terminal(r) ==
  /\ r \in Ids
  /\ \/ requests[r].status = "completed" /\ requests[r].promise = "resolved"
     \/ requests[r].promise \in {"rejected", "cleared"}
  /\ ~Queued(r)
  /\ r \notin DOMAIN retryTimers
  /\ r \notin awaiting

FifoWithinPriority ==
  [][\A r \in Started : requests'[r].attempts = 1 =>
        \A i \in 1..Len(queue') :
          (/\ requests'[queue'[i]].attempts = 0
           /\ requests'[queue'[i]].priority = requests'[r].priority)
            => queue'[i] > r]_vars

\* C11 witness: two requests of one priority wait for their first attempt
\* behind the executing one, the earlier submission in front
FifoWithinPriorityWitness ==
  /\ Len(queue) = 2
  /\ awaiting # {}
  /\ requests[queue[1]].priority = requests[queue[2]].priority
  /\ requests[queue[1]].attempts = 0
  /\ requests[queue[2]].attempts = 0
  /\ queue[1] < queue[2]
\* the requests whose retry timer fires in this step
Requeued == DOMAIN retryTimers \ DOMAIN retryTimers'

\* C12: a request re-queued for retry stands at the front of its own priority
\* band: ahead of every queued request of its priority (or a less urgent
\* one) and behind every queued request of a strictly more urgent priority.
RetryFrontOfBand ==
  [][\A r \in Requeued : \A i, j \in 1..Len(queue') :
        (queue'[j] = r /\ i # j) =>
          IF requests'[queue'[i]].priority < requests'[r].priority
          THEN i < j ELSE j < i]_vars
\* C13: for a request whose attempts keep failing with a retryable error,
\* the delay of the retry timer set after attempt k+1 is at least twice the
\* delay set after attempt k, or has reached the cap backoffDelayMs has for
\* the error.
BackoffDoubles ==
  \A r \in DOMAIN retryTimers :
    LET d == requests[r].delays
        k == Len(d) - 1
    IN (k >= 1 /\ shouldRetry(requests[r].lastError)) =>
         d[k + 1] >= Min(2 * d[k], backoffCapMs(requests[r].lastError))
\* the requests whose attempt ends in this step with the timeout error (a
\* requestFn of Spec fails with WorkErrors only, an attempt that succeeds
\* leaves lastError as it was)
TimedOut ==
  {r \in awaiting \ awaiting' :
     /\ requests'[r].status # "completed"
     /\ requests'[r].lastError = classify(TimeoutMessage)}

\* C14: the error of the timeout timer is classified TIMEOUT, and an attempt
\* it ends goes the failure path: status failed, a retry timer while attempts
\* remain and the promise untouched, otherwise the promise rejected at once.
TimeoutFailurePath ==
  /\ classify(TimeoutMessage) = "TIMEOUT"
  /\ [][\A r \in TimedOut :
          /\ requests'[r].status = "failed"
          /\ IF requests[r].attempts < requests[r].maxRetries
             THEN /\ r \in DOMAIN retryTimers'
                  /\ requests'[r].promise = requests[r].promise
             ELSE /\ r \notin DOMAIN retryTimers'
                  /\ requests'[r].promise = Settle(requests[r].promise, "rejected")]_vars

\* C14 witness: a request timed out on its first attempt, was retried, timed
\* out again and was rejected with the timeout error
TimeoutFailurePathWitness ==
  \E r \in Ids :
    /\ requests[r].lastError = "TIMEOUT"
    /\ requests[r].delays = <<retryDelay>>
    /\ requests[r].attempts = 2
    /\ requests[r].promise = "rejected"
\* the requests clearQueue has cancelled
Cancelled == {r \in Ids : requests[r].promise = "cleared"}

\* C15: a request cancelled while queued is out of the queue, is never
\* executed afterwards and is not counted by getStatus: neither in the queue
\* (queueLength, queueByPriority) nor among the active requests.
CancelledGone ==
  \A r \in Cancelled :
    /\ ~Queued(r)
    /\ r \notin awaiting
    /\ r \notin DOMAIN retryTimers
    /\ r \notin activeRequests
\* C16: every request held in the queue has status queued, and a request
\* that is completed or rejected is neither queued, nor in backoff, nor
\* executing.
QueuedStatus ==
  /\ \A i \in 1..Len(queue) : requests[queue[i]].status = "queued"
  /\ \A r \in Ids :
       (requests[r].status = "completed" \/ requests[r].promise = "rejected") =>
         (~Queued(r) /\ r \notin awaiting /\ r \notin DOMAIN retryTimers)
\* the three conditions of canMakeRequest for t, with n timestamps counted
\* in the window
Admissible(t, n) ==
  /\ limiterActive[t] < config[t].maxConcurrent
  /\ now - lastRequestTime[t] >= config[t].minInterval
  /\ n < config[t].maxPerMinute

\* C17 as stated: canMakeRequest(R) is true exactly when activeCount is below
\* maxConcurrent, minInterval has passed since the last admission, and fewer
\* than maxPerMinute timestamps t satisfy now - 60000 <= t <= now.
CanMakeRequestClosedWindow ==
  \A t \in ConfiguredTypes :
    canMakeRequest(t) <=> Admissible(t, Len(InWindow(t, now)))

\* C17 amended: the same with the window open at its old end: fewer than
\* maxPerMinute timestamps t satisfy now - 60000 < t <= now.
CanMakeRequestExact ==
  \A t \in ConfiguredTypes :
    canMakeRequest(t) <=>
      Admissible(t, Len(SelectSeq(limiterHistory[t],
                                  LAMBDA x : now - WindowMs < x /\ x <= now)))

\* C17 witness: maxPerMinute admissions are recorded, the oldest exactly
\* 60000 ms ago, and canMakeRequest is true
CanMakeRequestExactWitness ==
  /\ Len(limiterHistory["Proofreader"]) = config["Proofreader"].maxPerMinute
  /\ limiterHistory["Proofreader"][1] = now - WindowMs
  /\ canMakeRequest("Proofreader")
\* the admission timestamps of t still inside the trailing window
Inside(t) == {limiterHistory[t][i] : i \in {j \in 1..Len(limiterHistory[t]) :
                                              limiterHistory[t][j] > now - WindowMs}}

\* how many recorded admissions of t are still inside the trailing window
InsideCount(t) ==
  Cardinality({j \in 1..Len(limiterHistory[t]) : limiterHistory[t][j] > now - WindowMs})

\* the time until the oldest timestamp inside the window leaves it, when the
\* budget of t is used up; 0 otherwise
WindowWait(t) ==
  IF InsideCount(t) >= config[t].maxPerMinute
  THEN (CHOOSE x \in Inside(t) : \A y \in Inside(t) : x <= y) + WindowMs - now
  ELSE 0

\* C18: getWaitTime(R) is never negative and is the larger of the interval
\* deficit max(0, minInterval - (now - lastAdmittedAt)) and the time until
\* the oldest timestamp in the window leaves it (0 while budget is left).
GetWaitTimeExact ==
  \A t \in ConfiguredTypes :
    /\ getWaitTime(t) >= 0
    /\ getWaitTime(t) =
         Max(Max(0, config[t].minInterval - (now - lastRequestTime[t])), WindowWait(t))

\* C18 witness: the budget is used up by admissions at different times and
\* the wait for the window is the larger one
GetWaitTimeExactWitness ==
  /\ InsideCount("Proofreader") >= config["Proofreader"].maxPerMinute
  /\ Cardinality(Inside("Proofreader")) > 1
  /\ getWaitTime("Proofreader") = WindowWait("Proofreader")
  /\ getWaitTime("Proofreader") > config["Proofreader"].minInterval
\* the handles whose createSession call ends in this step
Created ==
  {h \in Handles : /\ work[h].phase \in {"none", "creating"}
                   /\ work'[h].phase \in {"callback", "settled"}}

\* C19: when createSession fails (the provider raises, or the api type is
\* unknown) the error reaches its caller and the live set is what it was;
\* when it succeeds the new handle, and only it, is added to the live set.
CreateSessionEffect ==
  [][\A h \in Created :
       IF work'[h].phase = "callback"
       THEN /\ work'[h].session
            /\ h \notin activeSessions
            /\ activeSessions' = activeSessions \cup {h}
       ELSE /\ ~work'[h].session
            /\ activeSessions' = activeSessions
            /\ (Attached(h) \/ work[h].phase = "none") =>
                 /\ requests'[h[1]].status = "failed"
                 /\ requests'[h[1]].lastError \in Types]_vars

\* C19 witness: an attempt for an unknown api type has failed while the
\* session of an earlier attempt is live, and the live set holds only that
CreateSessionEffectWitness ==
  \E h \in Handles, r \in Ids :
    /\ requests[r].apiType \notin ProviderTypes
    /\ requests[r].status = "failed"
    /\ requests[r].lastError = "UNKNOWN"
    /\ h[1] # r
    /\ activeSessions = {h}
\* the handles whose session.destroy() is invoked in this step
Destroyed == {h \in Handles : destroyCalls'[h] > destroyCalls[h]}

\* C20: destroySession on a handle that is not in the live set (released
\* before, or never tracked) is a no-op: the provider's destroy is invoked
\* only for handles in the live set.
ReleaseIdempotent == [][\A h \in Destroyed : h \in activeSessions]_vars

\* the step in which a destroyAllSessions call begins
SweepStarts == cleanups' = cleanups + 1

\* the step in which a destroyAllSessions call ends
SweepEnds == (SweepStarts \/ sweeping) /\ ~sweeping'

\* C21: destroyAllSessions invokes destroy() on every handle that is live
\* when it starts; a failing destroy() leaves the sweep waiting for the
\* remaining handles; the call never raises, and when it ends the live set
\* is empty.
DestroyAllTolerant ==
  [][/\ SweepStarts => \A h \in activeSessions : destroyCalls'[h] = destroyCalls[h] + 1
     /\ sweepWarned' # sweepWarned /\ sweep' # {} => sweeping' /\ sweepReturn' = "none"
     /\ SweepEnds => sweepReturn' = "returned" /\ activeSessions' = {}]_vars

\* a sweep over at least two handles returned after one destroy() failed
DestroyAllTolerantWitness ==
  /\ sweepReturn = "returned"
  /\ activeSessions = {}
  /\ \E h \in sweepWarned : \E g \in Handles \ sweepWarned :
       destroyCalls[g] >= 1 /\ work[g].phase = "callback"

\* the calls of fn in the handler's log
CallsOf(fn) == {i \in 1..Len(handlerLog) : handlerLog[i].fn = fn}

\* the patterns of classify in the order it tests them
Precedence == <<"rate limit", "network", "timeout", "invalid", "ai unavailable">>

\* the type classify returns for a pattern
TypeOf(pattern) ==
  CASE pattern = "rate limit" -> "RATE_LIMIT"
    [] pattern = "network" -> "NETWORK_ERROR"
    [] pattern = "timeout" -> "TIMEOUT"
    [] pattern = "invalid" -> "VALIDATION"
    [] pattern = "ai unavailable" -> "AI_UNAVAILABLE"

\* the raw message classify tests its patterns on
RawMessage(error) == IF error.message # "" THEN error.message ELSE StringOf(error)

\* the earliest pattern in the precedence that matches the message
FirstMatch(msg) ==
  LET hits == {i \in 1..Len(Precedence) : Precedence[i] \in MatchedBy(msg)}
  IN IF hits = {} THEN "UNKNOWN"
     ELSE TypeOf(Precedence[CHOOSE i \in hits : \A j \in hits : i <= j])

\* C23: classify returns the type of the first pattern, in the precedence
\* rate limit, network, timeout, invalid, ai unavailable, that matches the
\* raw message, and UNKNOWN when none matches.
ClassifyFirstMatch ==
  \A i \in CallsOf("classify") :
    LET error == handlerLog[i].error
    IN ~Falsy(error) /\ error.tag # "EnhancedError"
         => handlerLog[i].classified.type = FirstMatch(RawMessage(error))

\* classify was called on a message that matches the network and the
\* timeout pattern
ClassifyFirstMatchWitness ==
  \E i \in CallsOf("classify") :
    /\ handlerLog[i].error.tag = "Error"
    /\ MatchedBy(handlerLog[i].error.message) = {"network", "timeout"}
    /\ handlerLog[i].classified.type = "NETWORK_ERROR"

\* C24: classify is total and stable: on every input it returns, without
\* raising, an EnhancedError whose type is one of the six types, and
\* classifying its result again returns the same error.
ClassifyTotal ==
  \A i \in CallsOf("classify") :
    /\ handlerLog[i].classified.tag = "EnhancedError"
    /\ handlerLog[i].classified.type \in Types
    /\ Classify(handlerLog[i].classified) = handlerLog[i].classified

\* classify was called on null and on undefined
ClassifyTotalWitness ==
  \E i \in CallsOf("classify") :
    /\ handlerLog[i].error.tag \in {"null", "undefined"}
    /\ handlerLog[i].classified.type = "UNKNOWN"

\* C25: shouldRetry is true exactly for the types RATE_LIMIT, NETWORK_ERROR
\* and TIMEOUT, and false for the other types and for an error without type.
ShouldRetryExact ==
  \A i \in CallsOf("shouldRetry") :
    handlerLog[i].retry <=>
      handlerLog[i].error.type \in {"RATE_LIMIT", "NETWORK_ERROR", "TIMEOUT"}

\* shouldRetry was called on an error without a type
ShouldRetryExactWitness ==
  \E i \in CallsOf("shouldRetry") :
    handlerLog[i].error.type = "undefined" /\ ~handlerLog[i].retry

\* two backoffDelayMs calls for the same retryable error and base, the
\* first of the pair with the smaller attempt number
BackoffPairs ==
  {p \in CallsOf("backoffDelayMs") \X CallsOf("backoffDelayMs") :
     /\ shouldRetry(handlerLog[p[1]].error.type)
     /\ handlerLog[p[1]].attempt < handlerLog[p[2]].attempt}

\* baseMs * 2^attempt of a call
Uncapped(i) == handlerLog[i].baseMs * 2^(handlerLog[i].attempt)

\* C26 as stated: for a retryable type, a base and attempts a < b, every
\* value of backoffDelayMs for b is at least every value for a.
BackoffIncreasing ==
  \A p \in BackoffPairs : handlerLog[p[2]].delay >= handlerLog[p[1]].delay

\* C26 amended: every value for b is at least every value for a minus the
\* largest jitter, and at least every value for a when baseMs * 2^b does
\* not exceed the cap of the type and baseMs * 2^a is at least the largest
\* jitter.
BackoffIncreasingBelowCap ==
  \A p \in BackoffPairs :
    /\ handlerLog[p[2]].delay >= handlerLog[p[1]].delay - (JitterRange - 1)
    /\ Uncapped(p[2]) <= backoffCapMs(handlerLog[p[2]].error.type)
         /\ Uncapped(p[1]) >= JitterRange - 1
         => handlerLog[p[2]].delay >= handlerLog[p[1]].delay

\* a pair below the cap, the earlier attempt with the largest jitter and the
\* later one with none
BackoffIncreasingBelowCapWitness ==
  \E p \in BackoffPairs :
    /\ Uncapped(p[2]) <= backoffCapMs(handlerLog[p[2]].error.type)
    /\ handlerLog[p[1]].jitter = JitterRange - 1
    /\ handlerLog[p[2]].jitter = 0
    /\ handlerLog[p[2]].delay > handlerLog[p[1]].delay

\* the measureOperation calls that end in this step
Ended == {i \in 1..Len(calls) : calls[i].status = "running" /\ calls'[i].status = "finished"}

\* the records of the history that push number seq made
RecordsOf(history, seq) == {i \in 1..Len(history) : history[i].seq = seq}

\* a field of the stats entry of a name, 0 when there is no entry
Stat(stats, name, field) == IF name \in DOMAIN stats THEN stats[name][field] ELSE 0

\* C22: measureOperation returns fn's value when fn succeeds and raises fn's
\* own error when fn fails; either way it appends exactly one record to the
\* history and updates the stats entry of the name exactly once, the
\* success flag matching the outcome.
MeasureObserves ==
  [][\A i \in Ended :
       LET ok == calls'[i].outcome = "value"
           name == calls[i].name
       IN /\ calls'[i].result = IF ok THEN "returned the value" ELSE "raised the reason"
          /\ recorded' = recorded + 1
          /\ \E k \in RecordsOf(operationHistory', recorded') :
               /\ operationHistory'[k].name = name
               /\ operationHistory'[k].success = ok
          /\ Stat(metrics', name, "count") = Stat(metrics, name, "count") + 1
          /\ Stat(metrics', name, "successCount") =
               Stat(metrics, name, "successCount") + (IF ok THEN 1 ELSE 0)
          /\ Stat(metrics', name, "failureCount") =
               Stat(metrics, name, "failureCount") + (IF ok THEN 0 ELSE 1)]_vars

\* the measureOperation calls for a name that finished since the last
\* clearMetrics()
Finished(name) ==
  {i \in 1..Len(calls) :
     calls[i].status = "finished" /\ calls[i].name = name /\ calls[i].clears = clears}

\* the sum of the durations of a set of calls
RECURSIVE TotalDuration(_)
TotalDuration(S) ==
  IF S = {} THEN 0
  ELSE LET i == CHOOSE x \in S : TRUE IN calls[i].duration + TotalDuration(S \ {i})

\* C27: for every operation name, count = successCount + failureCount = the
\* number of measureOperation calls for the name that finished since the
\* last clearMetrics, totalDuration is the sum of their durations,
\* averageDuration = totalDuration / count, and minDuration <= maxDuration.
StatsMatchCalls ==
  \A name \in OpNames :
    /\ Stat(metrics, name, "count") = Cardinality(Finished(name))
    /\ Stat(metrics, name, "count") =
         Stat(metrics, name, "successCount") + Stat(metrics, name, "failureCount")
    /\ Stat(metrics, name, "totalDuration") = TotalDuration(Finished(name))
    /\ name \in DOMAIN metrics =>
         /\ metrics[name].averageDuration.num * metrics[name].count =
              metrics[name].totalDuration * metrics[name].averageDuration.den
         /\ metrics[name].averageDuration.den # 0
         /\ metrics[name].minDuration <= metrics[name].maxDuration

\* the push numbers of the records in a history
Seqs(history) == {history[i].seq : i \in 1..Len(history)}

\* the push number of the oldest record in a history
Oldest(history) == CHOOSE x \in Seqs(history) : \A y \in Seqs(history) : x <= y

\* a record is pushed to the history of the monitor in this step
MonitorPush == recorded' = recorded + 1

\* a record is pushed to the history of the queue in this step
QueuePush == LastSeq(requestHistory') = LastSeq(requestHistory) + 1

\* C28: the history of the monitor holds at most maxHistorySize records and
\* the history of the queue at most 500; a push to a full history evicts
\* the oldest record, and no other.
HistoriesBounded ==
  [][/\ Len(operationHistory') <= maxHistorySize
     /\ Len(requestHistory') <= queueMaxHistorySize
     /\ MonitorPush /\ Len(operationHistory) = maxHistorySize
          => Seqs(operationHistory) \ Seqs(operationHistory') = {Oldest(operationHistory)}
     /\ QueuePush /\ Len(requestHistory) = queueMaxHistorySize
          => Seqs(requestHistory) \ Seqs(requestHistory') = {Oldest(requestHistory)}]_vars

\* the introspection calls of the queue and of the monitor
IntrospectionCalls ==
  {"getStatus", "exportData", "getPerformanceMetrics", "getPerformanceSummary",
   "getRecentOperations", "getSlowestOperations", "exportMetrics",
   "checkPerformanceAlerts"}

\* this step is an introspection call
Introspects == returned' # returned /\ returned'.call \in IntrospectionCalls

\* the records of value are the Len(value) most recently recorded ones of
\* history, newest first
NewestFirst(value, history) ==
  \A i \in 1..Len(value) :
    /\ value[i] \in {history[j] : j \in 1..Len(history)}
    /\ Cardinality({x \in Seqs(history) : x > value[i].seq}) = i - 1

\* C29: an introspection call leaves the queue, the active set, the
\* statistics and the content and order of the histories unchanged, and
\* getRecentOperations(k) returns the k most recently recorded operations,
\* newest first.
IntrospectionReadOnly ==
  [][/\ Introspects
          => UNCHANGED <<queue, activeRequests, requests, metrics, activeOperations,
                         operationHistory, requestHistory>>
     /\ Introspects /\ returned'.call = "getRecentOperations"
          => /\ NewestFirst(returned'.value, operationHistory')
             /\ \/ Len(returned'.value) = Len(operationHistory')
                \/ Len(returned'.value) \in LimitOptions]_vars

\* the measureOperation calls in flight
RunningCalls == {i \in 1..Len(calls) : calls[i].status = "running"}

\* the successful records of the history of the monitor
Successes == {i \in 1..Len(operationHistory) : operationHistory[i].success}

\* C30: checkPerformanceAlerts() returns a success-rate alert exactly when
\* something was recorded and fewer than 90% of the records are successes,
\* an active-operations alert exactly when more than 10 operations are in
\* flight, a memory alert exactly when the memory delta since the baseline
\* exceeds 50 MB, and nothing else.
AlertsExact ==
  \A memory \in MemoryReadings :
    LET alerts == checkPerformanceAlerts(memory)
    IN /\ "success_rate" \in alerts
            <=> /\ Len(operationHistory) > 0
                /\ 100 * Cardinality(Successes) < 90 * Len(operationHistory)
       /\ "active_operations" \in alerts <=> Cardinality(RunningCalls) > 10
       /\ "memory" \in alerts <=> memory - memoryBaseline > 50000
       /\ alerts \subseteq {"success_rate", "active_operations", "memory"}

\* C31: the active set of the queue, which getStatus() counts and
\* exportData() lists, holds exactly the requests whose attempt is
\* executing; it is empty whenever no attempt is executing.
ActiveIsExecuting ==
  /\ activeRequests = awaiting
  /\ getStatus.activeRequests = Cardinality(awaiting)
  /\ awaiting = {} => getStatus.activeRequests = 0

\* the sessions of api type t that are live: created by an attempt of
\* withAISession and destroy not yet invoked on them
LiveSessions(t) ==
  {h \in Handles : /\ h[1] \in Ids
                   /\ requests[h[1]].apiType = t
                   /\ work[h].session
                   /\ destroyCalls[h] = 0}

\* C32: for every api type, the number of live sessions never exceeds the
\* maxConcurrent of its policy, also while a timed-out attempt is retried
\* or the next request has started.
LiveSessionsBounded ==
  \A t \in ApiTypes : Cardinality(LiveSessions(t)) <= config[t].maxConcurrent

\* C33: sleeping for getWaitTime(R) is sufficient for admission: when
\* canMakeRequest(R) is false, it is true getWaitTime(R) milliseconds later
\* with no admission in between; getWaitTime(R) = 0 implies canMakeRequest(R).
WaitTimeSuffices ==
  \A t \in LimiterTypes :
    /\ ~canMakeRequest(t) => canMakeRequestAt(t, now + getWaitTime(t))
    /\ getWaitTime(t) = 0 => canMakeRequest(t)

\* C34: after pause() and until resume(), no queued request starts
\* executing, whether the drain loop was running or idle at the pause and
\* whatever add calls or retry timers occur in between.
PausedStartsNothing == [][paused /\ paused' => Started = {}]_vars

\* the handles this step removes from the live set
Removed == activeSessions \ activeSessions'

\* C35: every handle destroyAllSessions removes from the live set has had
\* the provider's destroy invoked on it, also a session whose creation
\* completed while the sweep was awaiting the destroy calls.
SweepRemovesDestroyed ==
  [][SweepEnds => \A h \in Removed : destroyCalls'[h] > 0]_vars

\* every requestFn that withAISession started has returned
AllReturned == \A h \in Handles : work[h].phase \in {"none", "settled"}

\* C36: once every submitted request is terminal and every work invocation
\* has returned, the live session set is empty, whatever the outcome of
\* each provider destroy call.
ReleasedAtRest ==
  (Ids # {} /\ (\A r \in Ids : Terminal(r)) /\ AllReturned) => activeSessions = {}

\* the promise of request i of the rate limiter is settled
LimiterSettled(i) ==
  i <= Len(limiterReqs) /\ limiterReqs[i].state \in {"resolved", "rejected"}

\* C37: every request handed to queueRequest is eventually executed and
\* its promise settled, for every api type, with or without a policy, when
\* timers fire and every requestFunction settles.
LimiterEventuallySettles ==
  \A i \in 1..MaxRLReq : (i <= Len(limiterReqs)) ~> LimiterSettled(i)

\* C38: the active-operations count of the monitor equals the number of
\* measureOperation calls that have started and not yet finished, also for
\* calls of one name that start at the same timestamp; it is 0 when none
\* is in flight.
ActiveCountExact ==
  /\ Cardinality(activeOperations) = Cardinality(RunningCalls)
  /\ \A memory \in MemoryReadings :
       getPerformanceSummary(memory).activeOperations = Cardinality(RunningCalls)

\* the requests the queue has processed: an attempt of theirs has ended
Processed == {r \in Ids : requests[r].attempts > 0 /\ r \notin awaiting}

\* every request processed so far completed on its first attempt
AllFirstAttempt ==
  /\ Processed # {}
  /\ \A r \in Processed : requests[r].status = "completed" /\ requests[r].attempts = 1

\* C39: the successRate of getStatus() is the percentage of the processed
\* requests that completed: 100 when every request processed so far
\* completed on its first attempt, and then no success_rate alert is raised.
SuccessRateOfProcessed ==
  AllFirstAttempt => getStatus.successRate = 1000 /\ "success_rate" \notin queueAlerts

\* the total size of the stored cache entries
CacheSize == SizeOf(storage, CacheItems(storage))

\* C40: after setCachedData completes, the total size of the stored cache
\* entries does not exceed maxCacheSize.
CacheBounded == CacheSize <= maxCacheSize

====
